---- MODULE Spec2Model ----
(***************************************************************************)
(* A model of gddown (src/gddown.py): the two discovery loops              *)
(* (capture_blob_images, extract_files_from_folder), the per-page capture  *)
(* with its two strategies, compile_pdf and download_pdf.                  *)
(*                                                                         *)
(* The remote view (the Playwright page) is the environment: what a probe  *)
(* returns, whether a call raises, what bytes a page has.  Image bytes are *)
(* abstracted to a record [id, via, mode]: the page identifier they were   *)
(* captured for, the strategy that captured them and the PIL mode the      *)
(* bytes decode to ("bad": they do not decode).                            *)
(***************************************************************************)
EXTENDS Integers, Sequences, FiniteSets, TLC

(***************************************************************************)
(* Bounds of the model.                                                    *)
(***************************************************************************)
NumIds == 3
MaxProbeLen == 2
MaxExisting == 1
MaxBurst == 3
MaxPeriod == 9
MaxImages == 2
MaxTail == 3

(***************************************************************************)
(* Constants of the program.                                               *)
(***************************************************************************)
max_retries == 10
page_max_scroll_attempts == 8
max_pages_cap == 200
page_max_probes == 1000
folder_max_scroll_attempts == 15
folder_max_probes == 100
filename_limit == 200

Ids == 1..NumIds
\* A row whose data-id is missing or empty (falsy in Python).
NoId == 0

VARIABLES
  pc,                 \* position in download_pdf / extract_files_from_folder
  page_open,          \* the browser page of this call is open
  gate_attempt,       \* wait_for_pdf_pages: attempt
  attempt,            \* discovery loop: attempt (the for variable)
  no_new_count,       \* discovery loop: no_new_count
  collected_urls,     \* capture_blob_images: collected_urls (a list)
  collected_file_ids, \* extract_files_from_folder: collected_file_ids (a set)
  stop_reason,        \* why the discovery loop was left
  idx,                \* capture loop: position in collected_urls
  image_data_list,    \* capture_blob_images: image_data_list
  temp_dir,           \* files of temp_images/: name -> content
  temp_image_paths,   \* compile_pdf: temp_image_paths
  rgb_image_paths,    \* compile_pdf: rgb_image_paths
  downloads,          \* files of the output directory: name index -> pages
  output_path,        \* download_pdf: output_path (a name index, -1: none yet)
  compiled,           \* compile_pdf's return value: "none", "true", "false"
  file_urls,          \* extract_files_from_folder: file_urls
  result,             \* download_pdf's return value
  view,               \* environment: identifiers the remote view renders now
  period,             \* environment: a burst of new items every period-th probe
  burst,              \* environment: new items per burst
  filename,           \* sanitize_filename: filename
  sanitized,          \* sanitize_filename: sanitized
  args,               \* main: args.link and args.file
  exit_code,          \* the exit code of the process, -1 while it runs
  interrupted,        \* where the run was when the user interrupted it
  seen,               \* history: identifiers the probes have returned
  firstSeen,          \* history: page urls in order of first sighting
  probes,             \* history: probes made by the running discovery loop
  lastNew,            \* history: the probe that last returned a new identifier
  batch,              \* download_multiple: its locals, the browser, the output tree
  tries               \* history: capture attempts per item position

vars == <<pc, page_open, gate_attempt, attempt, no_new_count, collected_urls,
          collected_file_ids, stop_reason, idx, image_data_list, temp_dir,
          temp_image_paths, rgb_image_paths, downloads, output_path, compiled,
          file_urls, result, view, period, burst, seen, firstSeen, probes,
          lastNew, tries, batch, filename, sanitized, args, exit_code,
          interrupted>>

Range(s) == {s[i] : i \in DOMAIN s}

SeqsUpTo(S, n) == UNION {[1..k -> S] : k \in 0..n}

NoDuplicates(s) == \A i, j \in DOMAIN s : i # j => s[i] # s[j]

(***************************************************************************)
(* History: the order of first sighting.  The identifiers of a probe that  *)
(* were never seen before are added, each at the place of its first        *)
(* occurrence in the probe.  It is kept for the pages of a document; a     *)
(* view that only grows (SpecMono, SpecGrow) numbers its items in the      *)
(* order in which it shows them.                                           *)
(***************************************************************************)
FirstSeenAfter(fs, ids) ==
  LET keep == {i \in DOMAIN ids : /\ ids[i] # NoId
                                  /\ ids[i] \notin Range(fs)
                                  /\ \A j \in 1..(i - 1) : ids[j] # ids[i]}
      nth(k) == CHOOSE i \in keep : Cardinality({j \in keep : j < i}) = k - 1
  IN fs \o [k \in 1..Cardinality(keep) |-> ids[nth(k)]]

(***************************************************************************)
(* The discovery loops' pure steps.                                        *)
(***************************************************************************)
\* A loop that appends every reported url, seen before or not.
RECURSIVE AppendAlways(_, _)
AppendAlways(collected, urls) ==
  IF urls = <<>> THEN collected
  ELSE AppendAlways(Append(collected, Head(urls)), Tail(urls))

\* for u in urls: if u not in collected_urls: collected_urls.append(u)
RECURSIVE AppendNew(_, _)
AppendNew(collected, urls) ==
  IF urls = <<>> THEN collected
  ELSE AppendNew(IF Head(urls) \in Range(collected) THEN collected
                 ELSE Append(collected, Head(urls)),
                 Tail(urls))

\* for item in file_data: file_id = item.get('id');
\*   if file_id and file_id not in collected_file_ids: collected_file_ids.add(file_id)
\* A row is <<id, name>>.
AddNewIds(collected, file_data) ==
  collected \cup ({file_data[i][1] : i \in DOMAIN file_data} \ {NoId})

\* A counter that no probe resets.
IdleUpdateNoReset(count, added, reported) ==
  IF added = 0 THEN count + 1 ELSE count

\* A counter that a probe resets as soon as it reports anything.
IdleUpdateOnEmpty(count, added, reported) ==
  IF reported = 0 THEN count + 1 ELSE 0

\* if added == 0: no_new_count += 1  else: no_new_count = 0
IdleUpdate(count, added, reported) ==
  IF added = 0 THEN count + 1 ELSE 0

\* if len(collected_urls) >= max_pages_cap: break
CapReached(collected) == Len(collected) >= max_pages_cap

\* A loop that goes round once more than its range.
MoreProbesLax(n, ceiling) == n + 1 <= ceiling

\* for attempt in range(ceiling): is there a next value after n?
MoreProbes(n, ceiling) == n + 1 < ceiling

(***************************************************************************)
(* capture_blob_images: the discovery loop.                                *)
(***************************************************************************)
loopVars == <<attempt, no_new_count, collected_urls, collected_file_ids,
              stop_reason, seen, firstSeen, probes, lastNew>>
captureVars == <<idx, image_data_list, tries>>
compileVars == <<temp_dir, temp_image_paths, rgb_image_paths, downloads,
                 output_path, compiled>>
envVars == <<view, period, burst>>
nameVars == <<filename, sanitized>>
mainVars == <<args, exit_code, interrupted>>
callVars == <<page_open, gate_attempt, file_urls, result>>

\* One probe that returns urls: lines 181-216.
PageProbeReturns(urls) ==
  /\ pc = "discover_probe"
  /\ LET c == AppendNew(collected_urls, urls)
         added == Len(c) - Len(collected_urls)
         n == IdleUpdate(no_new_count, added, Len(urls))
     IN /\ collected_urls' = c
        /\ IF CapReached(c)
           THEN /\ no_new_count' = no_new_count
                /\ stop_reason' = "cap"
                /\ pc' = "discovered"
           ELSE /\ no_new_count' = n
                /\ IF n >= page_max_scroll_attempts
                   THEN stop_reason' = "idle" /\ pc' = "discovered"
                   ELSE stop_reason' = stop_reason /\ pc' = "discover_advance"
  /\ probes' = probes + 1
  /\ seen' = seen \cup Range(urls)
  /\ lastNew' = IF Range(urls) \subseteq seen THEN lastNew ELSE probes + 1
  /\ firstSeen' = FirstSeenAfter(firstSeen, urls)
  /\ UNCHANGED <<attempt, collected_file_ids>>
  /\ UNCHANGED <<captureVars, compileVars, callVars>>

\* The probe raises: nothing in the loop catches it, the handler of line 310
\* does, and capture_blob_images returns []; its locals are gone.
PageProbeRaises ==
  /\ pc = "discover_probe"
  /\ stop_reason' = "error"
  /\ probes' = 0
  /\ lastNew' = 0
  /\ attempt' = 0
  /\ no_new_count' = 0
  /\ pc' = "captured"
  /\ image_data_list' = <<>>
  /\ UNCHANGED <<collected_urls, collected_file_ids, seen, firstSeen, idx,
                 tries>>
  /\ UNCHANGED <<compileVars, envVars, batch, nameVars, mainVars, callVars>>

\* An advance that is followed by the next probe at once.
PageAdvanceNoDelay ==
  /\ pc = "discover_advance"
  /\ pc' = "discover_probe"
  /\ UNCHANGED <<loopVars, captureVars, compileVars, envVars, batch,
                 nameVars, mainVars, callVars>>

\* Lines 219-229: the scroll is evaluated.
PageAdvanceOk ==
  /\ pc = "discover_advance"
  /\ pc' = "discover_sleep"
  /\ UNCHANGED <<loopVars, captureVars, compileVars, envVars, batch, nameVars, mainVars, callVars>>

\* Lines 230-231: the scroll raises, the fallback is next.
PageAdvanceRaises ==
  /\ pc = "discover_advance"
  /\ pc' = "discover_fallback"
  /\ UNCHANGED <<loopVars, captureVars, compileVars, envVars, batch, nameVars, mainVars, callVars>>

\* A fallback whose failure ends the loop and the capture.
PageFallbackPropagates ==
  /\ pc = "discover_fallback"
  /\ \E raises \in BOOLEAN :
       IF raises
       THEN pc' = "captured" /\ stop_reason' = "error"
       ELSE pc' = "discover_sleep" /\ stop_reason' = stop_reason
  /\ UNCHANGED <<attempt, no_new_count, collected_urls, collected_file_ids,
                 seen, firstSeen, probes, lastNew>>
  /\ UNCHANGED <<captureVars, compileVars, envVars, batch, nameVars,
                 mainVars, callVars>>

\* Lines 232-235: PageDown, whose own failure is swallowed.
PageFallback ==
  /\ pc = "discover_fallback"
  /\ \E raises \in BOOLEAN : pc' = "discover_sleep"
  /\ UNCHANGED <<loopVars, captureVars, compileVars, envVars, batch, nameVars, mainVars, callVars>>

\* Line 238, then the for statement of line 179.
PageSleep ==
  /\ pc = "discover_sleep"
  /\ IF MoreProbes(attempt, page_max_probes)
     THEN attempt' = attempt + 1 /\ pc' = "discover_probe"
          /\ stop_reason' = stop_reason
     ELSE attempt' = attempt /\ pc' = "discovered" /\ stop_reason' = "ceiling"
  /\ UNCHANGED <<no_new_count, collected_urls, collected_file_ids, seen,
                 firstSeen, probes, lastNew>>
  /\ UNCHANGED <<captureVars, compileVars, envVars, batch, nameVars, mainVars, callVars>>

(***************************************************************************)
(* extract_files_from_folder: the scan loop, lines 416-487.                *)
(***************************************************************************)
FolderProbeReturns(file_data) ==
  /\ pc = "f_probe"
  /\ LET c == AddNewIds(collected_file_ids, file_data)
         added == Cardinality(c) - Cardinality(collected_file_ids)
         n == IdleUpdate(no_new_count, added, Len(file_data))
     IN /\ collected_file_ids' = c
        /\ no_new_count' = n
        /\ IF n >= folder_max_scroll_attempts
           THEN stop_reason' = "idle" /\ pc' = "f_scanned"
           ELSE stop_reason' = stop_reason /\ pc' = "f_advance"
  /\ probes' = probes + 1
  /\ seen' = seen \cup ({file_data[i][1] : i \in DOMAIN file_data} \ {NoId})
  /\ lastNew' = IF seen' = seen THEN lastNew ELSE probes + 1
  /\ UNCHANGED <<attempt, collected_urls, firstSeen>>
  /\ UNCHANGED <<captureVars, compileVars, callVars>>

\* Lines 485-487: except Exception: break.  attempt and no_new_count are not
\* read after the loop.
FolderProbeRaises ==
  /\ pc = "f_probe"
  /\ stop_reason' = "error"
  /\ probes' = 0
  /\ lastNew' = 0
  /\ attempt' = 0
  /\ no_new_count' = 0
  /\ pc' = "f_scanned"
  /\ UNCHANGED <<collected_urls, collected_file_ids, seen, firstSeen>>
  /\ UNCHANGED <<captureVars, compileVars, envVars, batch, nameVars, mainVars, callVars>>

FolderAdvanceOk ==
  /\ pc = "f_advance"
  /\ pc' = "f_sleep"
  /\ UNCHANGED <<loopVars, captureVars, compileVars, envVars, batch, nameVars, mainVars, callVars>>

FolderAdvanceRaises ==
  /\ pc = "f_advance"
  /\ pc' = "f_fallback"
  /\ UNCHANGED <<loopVars, captureVars, compileVars, envVars, batch, nameVars, mainVars, callVars>>

FolderFallback ==
  /\ pc = "f_fallback"
  /\ \E raises \in BOOLEAN : pc' = "f_sleep"
  /\ UNCHANGED <<loopVars, captureVars, compileVars, envVars, batch, nameVars, mainVars, callVars>>

FolderSleep ==
  /\ pc = "f_sleep"
  /\ IF MoreProbes(attempt, folder_max_probes)
     THEN attempt' = attempt + 1 /\ pc' = "f_probe"
          /\ stop_reason' = stop_reason
     ELSE attempt' = attempt /\ pc' = "f_scanned" /\ stop_reason' = "ceiling"
  /\ UNCHANGED <<no_new_count, collected_urls, collected_file_ids, seen,
                 firstSeen, probes, lastNew>>
  /\ UNCHANGED <<captureVars, compileVars, envVars, batch, nameVars, mainVars, callVars>>

(***************************************************************************)
(* download_pdf up to the discovery loop: open, wait_for_pdf_pages, title. *)
(***************************************************************************)
NoResult == [status |-> "NONE", message |-> ""]
Failed(msg) == [status |-> "FAILED", message |-> msg]
Succeeded == [status |-> "SUCCESS", message |-> "Saved to"]

\* No handler: the exception leaves download_pdf and, through the finally of
\* line 673, download_multiple.
Propagates(msg) ==
  /\ result' = result
  /\ page_open' = FALSE
  /\ pc' = "b_raised"

\* No finally: the page stays as it was.
LeavesOpen(msg) ==
  /\ result' = Failed(msg)
  /\ page_open' = page_open
  /\ pc' = "done"

\* The except and finally clauses of lines 569-578: FAILED, and the page closed.
DownloadFails(msg) ==
  /\ result' = Failed(msg)
  /\ page_open' = FALSE
  /\ pc' = "done"

\* Lines 519-535: browser.new_page() and page.goto().
DownloadOpen ==
  /\ pc = "dl_open"
  /\ \E raises \in BOOLEAN :
       IF raises
       THEN DownloadFails("Error") /\ UNCHANGED gate_attempt
       ELSE page_open' = TRUE /\ gate_attempt' = 0 /\ pc' = "gate_wait"
            /\ UNCHANGED result
  /\ UNCHANGED <<file_urls, loopVars, captureVars, compileVars, envVars, batch, nameVars, mainVars>>

\* wait_for_pdf_pages, lines 113-117: the wait for network idle of one
\* attempt returns, or times out into the handler of line 116.
GateWait ==
  /\ pc = "gate_wait"
  /\ \E timeout \in BOOLEAN :
       pc' = IF timeout THEN "gate_timeout" ELSE "gate"
  /\ UNCHANGED <<callVars, loopVars, captureVars, compileVars, envVars, batch,
                 nameVars, mainVars>>

\* The timeout ends wait_for_pdf_pages with the failure of download_pdf's
\* handler.
GateTimeoutEnds ==
  /\ pc = "gate_timeout"
  /\ DownloadFails("Error")
  /\ gate_attempt' = 0
  /\ UNCHANGED <<file_urls, loopVars, captureVars, compileVars, envVars, batch,
                 nameVars, mainVars>>

\* The timeout uses the attempt up: the next attempt's wait follows.
GateTimeoutSkips ==
  /\ pc = "gate_timeout"
  /\ IF MoreProbes(gate_attempt, max_retries)
     THEN gate_attempt' = gate_attempt + 1 /\ pc' = "gate_wait"
          /\ UNCHANGED <<result, page_open>>
     ELSE DownloadFails("Could not detect PDF pages") /\ gate_attempt' = 0
  /\ UNCHANGED <<file_urls, loopVars, captureVars, compileVars, envVars, batch,
                 nameVars, mainVars>>

\* Lines 116-117: the handler logs the timeout and the attempt goes on with
\* its page.evaluate.
GateTimeout ==
  /\ pc = "gate_timeout"
  /\ pc' = "gate"
  /\ UNCHANGED <<callVars, loopVars, captureVars, compileVars, envVars, batch,
                 nameVars, mainVars>>

\* wait_for_pdf_pages, lines 119-141: the page.evaluate of one attempt; count
\* is what the page reports.  After a count of zero the sleep of line 138
\* and the next attempt's wait follow.  attempt is gone when the function
\* returns.
GateProbe(count) ==
  /\ pc = "gate"
  /\ IF count > 0
     THEN pc' = "title" /\ gate_attempt' = 0 /\ UNCHANGED <<result, page_open>>
     ELSE IF MoreProbes(gate_attempt, max_retries)
     THEN gate_attempt' = gate_attempt + 1 /\ pc' = "gate_wait"
          /\ UNCHANGED <<result, page_open>>
     ELSE DownloadFails("Could not detect PDF pages") /\ gate_attempt' = 0
  /\ UNCHANGED <<file_urls, loopVars, captureVars, compileVars, batch, nameVars, mainVars>>

\* page.evaluate of the gate raises: download_pdf's handler of line 569.
GateRaises ==
  /\ pc = "gate"
  /\ DownloadFails("Error")
  /\ gate_attempt' = 0
  /\ UNCHANGED <<file_urls, loopVars, captureVars, compileVars, envVars, batch, nameVars, mainVars>>

\* Lines 542-546 and 168-176: the title, then capture_blob_images is entered.
GetTitle ==
  /\ pc = "title"
  /\ \E raises \in BOOLEAN :
       IF raises
       THEN DownloadFails("Error")
            /\ UNCHANGED <<attempt, no_new_count, collected_urls,
                           image_data_list>>
       ELSE /\ pc' = "discover_probe"
            /\ attempt' = 0
            /\ no_new_count' = 0
            /\ collected_urls' = <<>>
            /\ image_data_list' = <<>>
            /\ UNCHANGED <<result, page_open>>
  /\ UNCHANGED <<gate_attempt, file_urls, collected_file_ids, stop_reason,
                 seen, firstSeen, probes, lastNew, idx, tries, compileVars,
                 envVars, batch, nameVars, mainVars>>

(***************************************************************************)
(* capture_blob_images: the capture loop, lines 243-308.                   *)
(***************************************************************************)
NoTries == [primary |-> 0, secondary |-> 0]

\* What the fetch of a page can deliver: bytes that decode to an image, or
\* that do not.
PrimaryModes == {"RGB", "bad"}

\* canvas.toDataURL('image/png'): a PNG with an alpha channel.
CanvasMode == "RGBA"

\* Line 240-243: the loop over collected_urls starts.  attempt and
\* no_new_count are not read again; the discovery run and its probe count
\* are over.
BeginCapture ==
  /\ pc = "discovered"
  /\ idx' = 1
  /\ tries' = [i \in DOMAIN collected_urls |-> NoTries]
  /\ attempt' = 0
  /\ no_new_count' = 0
  /\ probes' = 0
  /\ lastNew' = 0
  /\ pc' = IF collected_urls = <<>> THEN "captured" ELSE "capture_primary"
  /\ UNCHANGED <<collected_urls, collected_file_ids, stop_reason, seen,
                 firstSeen, image_data_list, compileVars, envVars, batch, nameVars, mainVars,
                 callVars>>

\* A loop that an item failing both strategies ends.
AbortOnFailure(i, n, captured) == IF captured THEN i + 1 ELSE n + 1

\* Lines 301 and 305, continue, and the end of the loop body: whether the
\* item was captured or not, the item after it is next.
Following(i, n, captured) == i + 1

\* The for statement of line 243 takes the next url, or the loop ends.
NextItem(i, captured) ==
  LET next == Following(i, Len(collected_urls), captured)
  IN /\ idx' = next
     /\ pc' = IF next > Len(collected_urls) THEN "captured"
              ELSE "capture_primary"

\* An item put at the front of the list.
Prepended(list, image) == <<image>> \o list

\* image_data_list.append(...)
Appended(list, image) == Append(list, image)

\* A router that goes on to the fallback whatever the fetch did.
AlwaysSecondary(ok) == "capture_secondary"

\* After the fetch: the next item (line 264), or the handler of line 267.
AfterPrimary(ok) == IF ok THEN "next" ELSE "capture_secondary"

\* Lines 247-267: the fetch in the page.
CapturePrimary ==
  /\ pc = "capture_primary"
  /\ tries' = [tries EXCEPT ![idx].primary = @ + 1]
  /\ \E ok \in BOOLEAN, mode \in PrimaryModes :
       /\ image_data_list' =
            IF ok THEN Appended(image_data_list,
                                [id |-> collected_urls[idx], via |-> "fetch",
                                 mode |-> mode])
            ELSE image_data_list
       /\ IF AfterPrimary(ok) = "next"
          THEN NextItem(idx, TRUE)
          ELSE pc' = "capture_secondary" /\ idx' = idx
  /\ UNCHANGED <<loopVars, compileVars, envVars, batch, nameVars, mainVars, callVars>>

\* Lines 269-301: the canvas export; it yields data, nothing (null), or raises.
CaptureSecondary ==
  /\ pc = "capture_secondary"
  /\ tries' = [tries EXCEPT ![idx].secondary = @ + 1]
  /\ \E outcome \in {"data", "null", "raises"} :
       /\ image_data_list' =
            IF outcome = "data"
            THEN Appended(image_data_list,
                          [id |-> collected_urls[idx], via |-> "canvas",
                           mode |-> CanvasMode])
            ELSE image_data_list
       /\ NextItem(idx, outcome = "data")
  /\ UNCHANGED <<loopVars, compileVars, envVars, batch, nameVars, mainVars, callVars>>

(***************************************************************************)
(* download_pdf, lines 551-561: the destination name.  Name k stands for   *)
(* '<title>.pdf' (k = 0) or '<title>_k.pdf'.                               *)
(***************************************************************************)
\* No loop: always '<title>.pdf'.
FirstName(files) == 0

\* A name that is tested once more after the first, and then taken.
SuffixOnce(files) == IF 0 \notin DOMAIN files THEN 0 ELSE 1

\* while output_path.exists(): ... counter += 1
FreeName(files) == CHOOSE k \in 0..Cardinality(DOMAIN files) :
                     /\ k \notin DOMAIN files
                     /\ \A j \in 0..(k - 1) : j \in DOMAIN files

\* A file that was in the output directory before download_pdf looked.
OldFile == << [id |-> NoId, via |-> "old", mode |-> "RGB"] >>

\* The output directory belongs to the user, and line 558 is where
\* download_pdf first looks at it: what it holds by then, beside the files
\* of this run, is the files '<title>.pdf', '<title>_1.pdf', ... of earlier
\* runs, existing of them.
Found(files, existing) == files @@ [k \in 0..(existing - 1) |-> OldFile]

\* The directory as download_pdf can find it: without such files, or with
\* MaxExisting of them.
Findable(files) == {Found(files, existing) : existing \in {0, MaxExisting}}

(***************************************************************************)
(* compile_pdf, lines 325-373.  A temp file is named <<i, ext>> for        *)
(* page_000i.ext; its content is an image.                                 *)
(***************************************************************************)
Png(i) == <<i, "png">>
Jpg(i) == <<i, "jpg">>

\* if img.mode in ('RGBA', 'LA', 'P')
NeedsConvert(mode) == mode \in {"RGBA", "LA", "P"}

\* img2pdf.convert raises on bytes that are no image and refuses an image
\* with an alpha channel.
Img2PdfAccepts(mode) == mode \notin {"bad", "RGBA", "LA"}

\* A file that is in the temp directory already is left as it is.
TempWrittenKeeps(files, images, written) ==
  files @@ [n \in {Png(i - 1) : i \in 1..written} |-> images[n[1] + 1]]

\* Lines 334-338: the files page_0000.png, ... of the first written images.
TempWritten(files, images, written) ==
  [n \in {Png(i - 1) : i \in 1..written} |-> images[n[1] + 1]] @@ files

\* Lines 341-356 for image i of the temp files: does it get a .jpg?  An image
\* that does not open, or has no transparency, keeps its path.
Converts(files, paths, i) ==
  files[paths[i]].mode # "bad" /\ NeedsConvert(files[paths[i]].mode)

\* rgb_image_paths after the loop of line 342, when the save of image
\* failing raises (0: none does).
RgbPaths(files, paths, failing) ==
  [i \in DOMAIN paths |->
     IF Converts(files, paths, i) /\ i # failing THEN Jpg(i - 1) ELSE paths[i]]

\* The temp directory after that loop; a save that raises leaves its file
\* behind when leaves.
Normalized(files, paths, failing, leaves) ==
  LET touched == {i \in DOMAIN paths :
                    Converts(files, paths, i) /\ (i # failing \/ leaves)}
  IN [n \in {Jpg(i - 1) : i \in touched} |->
        [files[paths[n[1] + 1]] EXCEPT
           !.mode = IF n[1] + 1 = failing THEN "bad" ELSE "RGB"]] @@ files

\* Lines 364-367 delete the listed paths, and only line 369 is reached after
\* them: the handler of line 371 deletes nothing.
Remaining(files, paths, ok) ==
  IF ok THEN [n \in DOMAIN files \ paths |-> files[n]] ELSE files

\* Lines 359-360: open(output_path, 'wb') creates the file, then
\* img2pdf.convert runs: the file holds the pages, or nothing when it raised.
Written(dir, path, pages, ok) ==
  (path :> (IF ok THEN pages ELSE <<>>)) @@ dir

\* A check that lets an empty list through.
NeverEmpty(images) == FALSE

\* if not image_data_list
IsEmpty(images) == images = <<>>

\* compile_pdf, lines 325-373, called with images, the directories as they
\* are and the destination path.  The environment decides how many temp files
\* can be written (all: no failure), which save raises (0: none), whether it
\* leaves its file, and whether the destination can be opened.  The result is
\* the state compile_pdf leaves.
CompilePdf(images, temp, dir, path, written, failing, leaves, opens) ==
  LET files == TempWritten(temp, images, written)
      paths == [i \in 1..written |-> Png(i - 1)]
      rgb == RgbPaths(files, paths, failing)
      norm == Normalized(files, paths, failing, leaves)
      pages == [i \in DOMAIN rgb |-> norm[rgb[i]]]
      built == \A i \in DOMAIN pages : Img2PdfAccepts(pages[i].mode)
      listed == Range(paths) \cup Range(rgb)
  IN IF IsEmpty(images)
     THEN [ret |-> "false", temp |-> temp, dir |-> dir,
           temp_image_paths |-> <<>>, rgb_image_paths |-> <<>>]
     ELSE IF written < Len(images)
     THEN [ret |-> "false", temp |-> Remaining(files, {}, FALSE), dir |-> dir,
           temp_image_paths |-> paths, rgb_image_paths |-> <<>>]
     ELSE [ret |-> IF opens /\ built THEN "true" ELSE "false",
           temp |-> Remaining(norm, listed, opens /\ built),
           dir |-> IF opens THEN Written(dir, path, pages, built) ELSE dir,
           temp_image_paths |-> paths, rgb_image_paths |-> rgb]

\* What the environment can do to one call of compile_pdf with n images:
\* stop the writing of the temp files after written of them, or let all be
\* written and then make the save of image failing raise (0: of none),
\* leaving its file or not, and let the destination open or not.
Faults(n) ==
  {[written |-> w, failing |-> 0, leaves |-> FALSE, opens |-> TRUE] :
     w \in 0..(n - 1)}
  \cup {f \in [written : {n}, failing : 0..n, leaves : BOOLEAN,
               opens : BOOLEAN] : f.failing = 0 => ~f.leaves}

\* A test that sends every list on to compile_pdf.
AnythingCaptured(images) == FALSE

\* Line 546: if not image_data_list.
NothingCaptured(images) == images = <<>>

\* download_pdf from the return of capture_blob_images on, lines 547-578: the
\* empty check, the destination name, compile_pdf, the result, the page
\* closed.  Nothing is awaited in between but page.close().  found is the
\* output directory as line 558 finds it, fault what goes wrong in
\* compile_pdf.
AssembleWith(found, fault) ==
  /\ pc = "captured"
  /\ IF NothingCaptured(image_data_list)
     THEN /\ DownloadFails("Failed to capture PDF pages")
          /\ UNCHANGED compileVars
     ELSE   LET path == FreeName(found)
                after == CompilePdf(image_data_list, temp_dir, found, path,
                                    fault.written, fault.failing,
                                    fault.leaves, fault.opens)
            IN /\ output_path' = path
               /\ temp_dir' = after.temp
               /\ downloads' = after.dir
               /\ temp_image_paths' = after.temp_image_paths
               /\ rgb_image_paths' = after.rgb_image_paths
               /\ compiled' = after.ret
               /\ IF after.ret = "true"
                  THEN result' = Succeeded /\ page_open' = FALSE /\ pc' = "done"
                  ELSE DownloadFails("Failed to compile PDF")
  /\ UNCHANGED <<gate_attempt, file_urls, loopVars, captureVars, envVars,
                 batch, nameVars, mainVars>>

Assemble ==
  \E found \in Findable(downloads), fault \in Faults(Len(image_data_list)) :
    AssembleWith(found, fault)

(***************************************************************************)
(* extract_files_from_folder around its loop.                              *)
(***************************************************************************)
Perms(S) == {s \in [1..Cardinality(S) -> S] : Range(s) = S}

\* Lines 389-414; a failure of new_page or goto ends in the handler of 499.
FolderOpen ==
  /\ pc = "f_open"
  /\ \E raises \in BOOLEAN :
       IF raises
       THEN /\ file_urls' = <<>>
            /\ page_open' = FALSE
            /\ pc' = "f_returned"
            /\ UNCHANGED <<attempt, no_new_count, collected_file_ids>>
       ELSE /\ page_open' = TRUE
            /\ attempt' = 0
            /\ no_new_count' = 0
            /\ collected_file_ids' = {}
            /\ pc' = "f_probe"
            /\ UNCHANGED file_urls
  /\ UNCHANGED <<gate_attempt, result, collected_urls, stop_reason, seen,
                 firstSeen, probes, lastNew, captureVars, compileVars,
                 envVars, batch, nameVars, mainVars>>

\* Lines 489-505: one url per collected id, in the set's iteration order,
\* which is any order; page.close() raising ends in the handler of line 499,
\* which closes again.  The page is open until close is called on it.
FolderReturn ==
  /\ pc = "f_scanned"
  /\ \E order \in Perms(collected_file_ids), close_raises \in BOOLEAN :
       IF close_raises
       THEN file_urls' = <<>> /\ page_open' = FALSE
       ELSE file_urls' = order /\ page_open' = FALSE
  /\ pc' = "f_returned"
  /\ attempt' = 0
  /\ no_new_count' = 0
  /\ probes' = 0
  /\ lastNew' = 0
  /\ UNCHANGED <<gate_attempt, result, collected_urls, collected_file_ids,
                 stop_reason, seen, firstSeen, captureVars, compileVars,
                 envVars, batch, nameVars, mainVars>>

(***************************************************************************)
(* Spec: one call of download_pdf, or one of extract_files_from_folder,    *)
(* against a remote view that may report anything: any identifiers in any  *)
(* order, repeated or not, under any name, and any call may raise.         *)
(***************************************************************************)
NoFiles == [n \in {} |-> OldFile]

\* download_multiple is not running.
NoBatch == [phase |-> "none"]

\* main is not running.
NoArgs == [link |-> <<>>, file |-> <<>>]

InitCommon ==
  /\ page_open = FALSE
  /\ gate_attempt = 0
  /\ attempt = 0
  /\ no_new_count = 0
  /\ collected_urls = <<>>
  /\ collected_file_ids = {}
  /\ stop_reason = "none"
  /\ idx = 0
  /\ image_data_list = <<>>
  /\ temp_dir = NoFiles
  /\ temp_image_paths = <<>>
  /\ rgb_image_paths = <<>>
  /\ output_path = -1
  /\ compiled = "none"
  /\ file_urls = <<>>
  /\ result = NoResult
  /\ seen = {}
  /\ firstSeen = <<>>
  /\ probes = 0
  /\ lastNew = 0
  /\ tries = <<>>
  /\ filename = <<>>
  /\ sanitized = <<>>
  /\ args = NoArgs
  /\ exit_code = -1
  /\ interrupted = "none"
  /\ batch = NoBatch

Init ==
  /\ InitCommon
  /\ pc \in {"dl_open", "f_open"}
  /\ downloads = NoFiles
  /\ view = <<>>
  /\ period = 1
  /\ burst = 1

ProbeResults == SeqsUpTo(Ids, MaxProbeLen)

\* The rows of a folder probe: any identifiers (the script of line 420
\* skips a row without one), under a name that depends on the row's place,
\* so that an identifier comes with one name in one row and with another in
\* the next row or the next probe.
NameOf(n) == IF n % 2 = 0 THEN "x.pdf" ELSE "y.pdf"

FolderRows(ids) == [i \in DOMAIN ids |-> <<ids[i], NameOf(i)>>]

FolderProbeResults ==
  {FolderRows(ids) : ids \in SeqsUpTo(Ids, MaxProbeLen)}

PageProbe ==
  \E urls \in ProbeResults :
    PageProbeReturns(urls) /\ UNCHANGED <<envVars, batch, nameVars, mainVars>>

FolderProbe ==
  \E file_data \in FolderProbeResults :
    FolderProbeReturns(file_data) /\ UNCHANGED <<envVars, batch, nameVars, mainVars>>

Gate == \E count \in 0..1 : GateProbe(count) /\ UNCHANGED envVars

Next ==
  \/ DownloadOpen
  \/ GateWait
  \/ GateTimeout
  \/ Gate
  \/ GateRaises
  \/ GetTitle
  \/ PageProbe
  \/ PageProbeRaises
  \/ PageAdvanceOk
  \/ PageAdvanceRaises
  \/ PageFallback
  \/ PageSleep
  \/ BeginCapture
  \/ CapturePrimary
  \/ CaptureSecondary
  \/ Assemble
  \/ FolderOpen
  \/ FolderProbe
  \/ FolderProbeRaises
  \/ FolderAdvanceOk
  \/ FolderAdvanceRaises
  \/ FolderFallback
  \/ FolderSleep
  \/ FolderReturn

Spec == Init /\ [][Next]_vars

(***************************************************************************)
(* SpecMono: the discovery loops against a view that only grows: every     *)
(* probe reports what the probe before it reported and at most one         *)
(* identifier more, put first or last, and no call raises.                 *)
(***************************************************************************)
InitLoop ==
  /\ InitCommon
  /\ pc \in {"discover_probe", "f_probe"}
  /\ downloads = NoFiles
  /\ view = <<>>

InitMono == InitLoop /\ period = 1 /\ burst = 1

Grown(v, more, front) ==
  IF more = 0 \/ Len(v) >= NumIds THEN v
  ELSE IF front THEN <<Len(v) + 1>> \o v ELSE Append(v, Len(v) + 1)

PageProbeMono ==
  \E more \in 0..1, front \in BOOLEAN :
    /\ view' = Grown(view, more, front)
    /\ PageProbeReturns(view')
    /\ UNCHANGED <<period, burst, batch, nameVars, mainVars>>

FolderProbeMono ==
  \E more \in 0..1, front \in BOOLEAN :
    /\ view' = Grown(view, more, front)
    /\ FolderProbeReturns(FolderRows(view'))
    /\ UNCHANGED <<period, burst, batch, nameVars, mainVars>>

NextMono ==
  \/ PageProbeMono
  \/ PageAdvanceOk
  \/ PageAdvanceRaises
  \/ PageFallback
  \/ PageSleep
  \/ FolderProbeMono
  \/ FolderAdvanceOk
  \/ FolderAdvanceRaises
  \/ FolderFallback
  \/ FolderSleep

SpecMono == InitMono /\ [][NextMono]_vars

(***************************************************************************)
(* SpecGrow: the discovery loops against a view that never runs out of new *)
(* items: every period-th probe reports burst identifiers never seen       *)
(* before, after the last one of the probe before; period = 1 is a view    *)
(* with new identifiers on every probe.  The loops run with the program's  *)
(* own limits.  A probe returns as soon as it is made, so the loop's next  *)
(* step is always taken.                                                   *)
(***************************************************************************)
InitGrow ==
  /\ InitLoop
  /\ period \in 1..MaxPeriod
  /\ burst \in 1..MaxBurst

Window(v, n) ==
  LET last == IF v = <<>> THEN 0 ELSE v[Len(v)]
  IN (IF last = 0 THEN <<>> ELSE <<last>>) \o [i \in 1..n |-> last + i]

Arrivals == IF probes % period = 0 THEN burst ELSE 0

PageProbeGrow ==
  /\ view' = Window(view, Arrivals)
  /\ PageProbeReturns(view')
  /\ UNCHANGED <<period, burst, batch, nameVars, mainVars>>

FolderProbeGrow ==
  /\ view' = Window(view, Arrivals)
  /\ FolderProbeReturns(FolderRows(view'))
  /\ UNCHANGED <<period, burst, batch, nameVars, mainVars>>

NextGrow ==
  \/ PageProbeGrow
  \/ PageAdvanceOk
  \/ PageAdvanceRaises
  \/ PageFallback
  \/ PageSleep
  \/ FolderProbeGrow
  \/ FolderAdvanceOk
  \/ FolderAdvanceRaises
  \/ FolderFallback
  \/ FolderSleep

SpecGrow == InitGrow /\ [][NextGrow]_vars /\ WF_vars(NextGrow)

(***************************************************************************)
(* SpecGate: one download_pdf from its first line to the end of the        *)
(* discovery loop against a page whose images come and go while            *)
(* wait_for_pdf_pages runs: view is what the last page.evaluate found.     *)
(* Once the gate has let the document through the view only grows, as in   *)
(* SpecMono.                                                               *)
(***************************************************************************)
InitGate ==
  /\ InitCommon
  /\ pc = "dl_open"
  /\ downloads = NoFiles
  /\ view = <<>>
  /\ period = 1
  /\ burst = 1

GateProbeView ==
  \E shows \in BOOLEAN :
    /\ view' = IF shows THEN <<1>> ELSE <<>>
    /\ GateProbe(Len(view'))
    /\ UNCHANGED <<period, burst>>

NextGate ==
  \/ DownloadOpen
  \/ GateWait
  \/ GateTimeout
  \/ GateProbeView
  \/ GateRaises
  \/ GetTitle
  \/ PageProbeMono
  \/ PageAdvanceOk
  \/ PageAdvanceRaises
  \/ PageFallback
  \/ PageSleep

SpecGate == InitGate /\ [][NextGate]_vars

(***************************************************************************)
(* SpecCompile: the destination name and compile_pdf on their own, for     *)
(* every list of up to MaxImages images (fetched and decodable, fetched    *)
(* and not decodable, exported from a canvas) and every output directory   *)
(* holding some of the names '<title>.pdf', '<title>_1.pdf', ...           *)
(***************************************************************************)
ImageKinds == {[via |-> "fetch", mode |-> "RGB"],
               [via |-> "fetch", mode |-> "bad"],
               [via |-> "canvas", mode |-> CanvasMode]}

CompileInputs ==
  UNION {{[i \in 1..n |-> [id |-> i, via |-> k[i].via, mode |-> k[i].mode]] :
            k \in [1..n -> ImageKinds]} : n \in 0..MaxImages}

Directories == {[k \in S |-> OldFile] : S \in SUBSET (0..MaxExisting)}

InitCompile ==
  /\ pc = "c_call"
  /\ image_data_list \in CompileInputs
  /\ downloads \in Directories
  /\ page_open = FALSE
  /\ gate_attempt = 0
  /\ attempt = 0
  /\ no_new_count = 0
  /\ collected_urls = <<>>
  /\ collected_file_ids = {}
  /\ stop_reason = "none"
  /\ idx = 0
  /\ temp_dir = NoFiles
  /\ temp_image_paths = <<>>
  /\ rgb_image_paths = <<>>
  /\ output_path = -1
  /\ compiled = "none"
  /\ file_urls = <<>>
  /\ result = NoResult
  /\ seen = {}
  /\ firstSeen = <<>>
  /\ probes = 0
  /\ lastNew = 0
  /\ tries = <<>>
  /\ filename = <<>>
  /\ sanitized = <<>>
  /\ args = NoArgs
  /\ exit_code = -1
  /\ interrupted = "none"
  /\ batch = NoBatch
  /\ view = <<>>
  /\ period = 1
  /\ burst = 1

\* download_pdf, lines 551-561: the destination name is computed, before
\* compile_pdf is called, again before it is called, or after it returned.
ComputeName ==
  /\ pc \in {"c_call", "c_named", "c_done"}
  /\ output_path' = FreeName(downloads)
  /\ pc' = IF pc = "c_done" THEN "c_again" ELSE "c_named"
  /\ UNCHANGED <<temp_dir, temp_image_paths, rgb_image_paths, downloads,
                 compiled, loopVars, captureVars, envVars, batch, nameVars, mainVars, callVars>>

\* compile_pdf(image_data_list, output_path), lines 325-373.
CompileCall ==
  /\ pc = "c_named"
  /\ \E fault \in Faults(Len(image_data_list)) :
       LET after == CompilePdf(image_data_list, temp_dir, downloads,
                               output_path, fault.written, fault.failing,
                               fault.leaves, fault.opens)
       IN /\ temp_dir' = after.temp
          /\ downloads' = after.dir
          /\ temp_image_paths' = after.temp_image_paths
          /\ rgb_image_paths' = after.rgb_image_paths
          /\ compiled' = after.ret
  /\ pc' = "c_done"
  /\ UNCHANGED <<output_path, loopVars, captureVars, envVars, batch, nameVars, mainVars, callVars>>

NextCompile ==
  \/ ComputeName
  \/ CompileCall

SpecCompile == InitCompile /\ [][NextCompile]_vars

(***************************************************************************)
(* SpecStale: two documents assembled one after the other with the one     *)
(* temp directory of line 54: the images of the second document carry the  *)
(* identifiers after MaxImages, and what the first compile_pdf left in the *)
(* temp directory is there when the second one runs.                       *)
(***************************************************************************)
LaterInputs ==
  {[i \in DOMAIN images |-> [images[i] EXCEPT !.id = MaxImages + i]] :
     images \in CompileInputs}

IsLater(images) == \E i \in DOMAIN images : images[i].id > MaxImages

\* download_multiple, lines 631-633 and 658-660: the next download_pdf has
\* captured its images; the locals of the call before are gone.
NextDocument ==
  /\ pc \in {"c_done", "c_again"}
  /\ ~IsLater(image_data_list)
  /\ image_data_list' \in LaterInputs
  /\ temp_image_paths' = <<>>
  /\ rgb_image_paths' = <<>>
  /\ output_path' = -1
  /\ compiled' = "none"
  /\ pc' = "c_call"
  /\ UNCHANGED <<temp_dir, downloads, idx, tries, loopVars, envVars, batch,
                 nameVars, mainVars, callVars>>

NextStale ==
  \/ ComputeName
  \/ CompileCall
  \/ NextDocument

\* The first document finds the output directory without files of its name.
InitStale == InitCompile /\ downloads = NoFiles

SpecStale == InitStale /\ [][NextStale]_vars

(***************************************************************************)
(* SpecBatch: download_multiple, lines 580-688, around the calls of        *)
(* extract_files_from_folder and download_pdf above.  batch holds its      *)
(* locals (urls, folder_urls, file_urls, folder_idx, extracted_files,      *)
(* file_idx, results), the browser, the caller's position (at), the        *)
(* directory the current document goes to (output_dir), the output tree    *)
(* and what the summary printed; expansions and processed count the calls  *)
(* of lines 617 and 633.  A url is what lines 96-102 see of it, and for a  *)
(* folder the number of PDF entries it holds.  Every document and every    *)
(* folder of a batch has the same title, the case in which names meet.     *)
(***************************************************************************)
FolderUrl(n) == [folder |-> TRUE, file |-> FALSE, entries |-> n]
FileUrl == [folder |-> FALSE, file |-> TRUE, entries |-> 0]
OtherUrl == [folder |-> FALSE, file |-> FALSE, entries |-> 0]
BothUrl == [folder |-> TRUE, file |-> TRUE, entries |-> 0]

\* Line 98 and line 102.
is_folder_url(url) == url.folder
is_file_url(url) == url.file

\* Lines 592-599: a url goes to the folders if it is a folder url, to the
\* files otherwise, recognised or not.
FolderUrlsOf(urls) == SelectSeq(urls, is_folder_url)
\* Only the urls recognised as file urls.
RecognizedOnly(urls) ==
  SelectSeq(urls, LAMBDA url : ~is_folder_url(url) /\ is_file_url(url))

FileUrlsOf(urls) ==
  SelectSeq(urls, LAMBDA url : ~is_folder_url(url)
                               /\ (is_file_url(url) \/ ~is_file_url(url)))

\* Line 586.
NoResults == [success |-> 0, failed |-> 0, details |-> <<>>]

\* The detail is appended, the failed counter forgotten.
RecordedUncounted(results, url, status, message) ==
  [success |-> results.success + (IF status = "SUCCESS" THEN 1 ELSE 0),
   failed |-> results.failed,
   details |-> Append(results.details,
                      [url |-> url, status |-> status, message |-> message])]

\* Lines 620-622, 635-640 and 664-669: the counters and one more detail.
Recorded(results, url, status, message) ==
  [success |-> results.success + (IF status = "SUCCESS" THEN 1 ELSE 0),
   failed |-> results.failed + (IF status = "SUCCESS" THEN 0 ELSE 1),
   details |-> Append(results.details,
                      [url |-> url, status |-> status, message |-> message])]

\* The message of a result: its text, and for 'Saved to' the path.
Message(text, dir, path) == [text |-> text, dir |-> dir, path |-> path]

\* The url of line 491 for an entry of the folder in hand.
EntryUrl(file_id) == [folder |-> FALSE, file |-> TRUE, entries |-> 0,
                      id |-> file_id]

\* The batches: nothing; two files; a folder of two entries; an empty
\* folder, a folder and a file; two folders and a url of neither kind; a
\* url of neither kind and one that holds both patterns.
BatchInputs ==
  { <<>>,
    <<FileUrl, FileUrl>>,
    <<OtherUrl, BothUrl>>,
    <<FolderUrl(2)>>,
    <<FileUrl, FolderUrl(0), FolderUrl(1)>>,
    <<FolderUrl(1), OtherUrl, FolderUrl(1)>> }

\* download_multiple(urls) is called; root is what downloads/ holds.
BatchOf(urls, root) ==
  [at |-> "start", urls |-> urls, folder_urls |-> <<>>,
   file_urls |-> <<>>, folder_idx |-> 0,
   extracted_files |-> <<>>, file_idx |-> 0,
   results |-> NoResults, browser |-> "none",
   output_dir |-> "downloads",
   tree |-> [downloads |-> root, folder |-> NoFiles],
   expansions |-> 0, processed |-> 0, summary |-> <<>>]

InitBatch ==
  /\ pc = "b_call"
  /\ \E urls \in BatchInputs, root \in Findable(NoFiles) :
       batch = BatchOf(urls, root)
  /\ downloads = NoFiles
  /\ page_open = FALSE
  /\ gate_attempt = 0
  /\ attempt = 0
  /\ no_new_count = 0
  /\ collected_urls = <<>>
  /\ collected_file_ids = {}
  /\ stop_reason = "none"
  /\ idx = 0
  /\ image_data_list = <<>>
  /\ temp_dir = NoFiles
  /\ temp_image_paths = <<>>
  /\ rgb_image_paths = <<>>
  /\ output_path = -1
  /\ compiled = "none"
  /\ file_urls = <<>>
  /\ result = NoResult
  /\ seen = {}
  /\ firstSeen = <<>>
  /\ probes = 0
  /\ lastNew = 0
  /\ tries = <<>>
  /\ filename = <<>>
  /\ sanitized = <<>>
  /\ args = NoArgs
  /\ exit_code = -1
  /\ interrupted = "none"
  /\ view = <<>>
  /\ period = 1
  /\ burst = 1

\* What a batch action leaves alone: the locals of the two callees.
calleeVars == <<gate_attempt, attempt, no_new_count, collected_urls,
                collected_file_ids, stop_reason, idx, image_data_list,
                temp_image_paths, rgb_image_paths, output_path, compiled,
                file_urls, result, seen, firstSeen, probes, lastNew, tries>>

\* Lines 582-602: no urls, no run; else the urls are classified and the
\* browser is launched, which may raise before the try of line 604.
BatchStart ==
  /\ pc = "b_call"
  /\ IF batch.urls = <<>>
     THEN pc' = "b_returned" /\ UNCHANGED batch
     ELSE \E raises \in BOOLEAN :
            /\ batch' = [batch EXCEPT
                 !.folder_urls = FolderUrlsOf(batch.urls),
                 !.file_urls = FileUrlsOf(batch.urls),
                 !.folder_idx = 1,
                 !.browser = IF raises THEN "none" ELSE "open"]
            /\ pc' = IF raises THEN "b_raised" ELSE "b_folders"
  /\ UNCHANGED <<page_open, temp_dir, downloads, calleeVars, envVars, nameVars, mainVars>>

\* Lines 606-617: the next folder is expanded, or the folders are over.
NextFolder ==
  /\ pc = "b_folders"
  /\ IF batch.folder_idx <= Len(batch.folder_urls)
     THEN /\ pc' = "f_open"
          /\ batch' = [batch EXCEPT !.at = "folders",
                                    !.expansions = @ + 1]
     ELSE /\ pc' = "b_files"
          /\ batch' = [batch EXCEPT !.at = "files", !.file_idx = 1,
                                    !.output_dir = "downloads"]
  /\ UNCHANGED <<page_open, temp_dir, downloads, calleeVars, envVars, nameVars, mainVars>>

\* The locals of extract_files_from_folder are gone when it has returned.
FolderLocalsGone ==
  /\ file_urls' = <<>>
  /\ collected_file_ids' = {}
  /\ stop_reason' = "none"
  /\ seen' = {}
  /\ UNCHANGED <<gate_attempt, attempt, no_new_count, collected_urls, idx,
                 image_data_list, temp_image_paths, rgb_image_paths,
                 output_path, compiled, result, firstSeen, probes, lastNew,
                 tries>>

\* A check that takes every folder for one with files.
AlwaysSome(extracted_files) == FALSE

\* Line 619: if not extracted_files.
NoneExtracted(extracted_files) == extracted_files = <<>>

\* Lines 617-628: no file, one FAILED detail for the folder and the next
\* folder; else the folder's directory, whose mkdir is in no try but the one
\* of line 604, whose finally closes the browser.
FolderExtracted ==
  /\ pc = "f_returned"
  /\ batch.at = "folders"
  /\ IF NoneExtracted(file_urls)
     THEN /\ batch' = [batch EXCEPT
                 !.results = Recorded(@, batch.folder_urls[batch.folder_idx],
                                      "FAILED",
                                      Message("No files found in folder",
                                              "", -1)),
                 !.folder_idx = @ + 1]
          /\ pc' = "b_folders"
     ELSE \E mkdir_raises \in BOOLEAN :
            IF mkdir_raises
            THEN /\ batch' = [batch EXCEPT !.browser = "closed"]
                 /\ pc' = "b_raised"
            ELSE /\ batch' = [batch EXCEPT
                        !.extracted_files =
                           [i \in DOMAIN file_urls |-> EntryUrl(file_urls[i])],
                        !.file_idx = 1,
                        !.output_dir = "folder",
                        !.at = "folder_files"]
                 /\ pc' = "b_folder_files"
  /\ FolderLocalsGone
  /\ UNCHANGED <<page_open, temp_dir, downloads, envVars, nameVars, mainVars>>

\* Lines 631-633 and 643-646: download_pdf for the folder's next file, into
\* the folder's directory; or the folder is over.
NextFolderFile ==
  /\ pc = "b_folder_files"
  /\ IF batch.file_idx <= Len(batch.extracted_files)
     THEN /\ pc' = "dl_open"
          /\ downloads' = batch.tree[batch.output_dir]
          /\ batch' = [batch EXCEPT !.processed = @ + 1]
     ELSE /\ pc' = "b_folders"
          /\ downloads' = downloads
          /\ batch' = [batch EXCEPT !.folder_idx = @ + 1, !.at = "folders",
                                    !.extracted_files = <<>>,
                                    !.file_idx = 0]
  /\ UNCHANGED <<page_open, temp_dir, calleeVars, envVars, nameVars, mainVars>>

\* Lines 649-660: download_pdf for the next file, into downloads_dir; or the
\* try block is over.
NextFile ==
  /\ pc = "b_files"
  /\ IF batch.file_idx <= Len(batch.file_urls)
     THEN pc' = "dl_open" /\ downloads' = batch.tree[batch.output_dir]
     ELSE pc' = "b_finally" /\ downloads' = downloads
  /\ UNCHANGED <<batch, nameVars, mainVars, page_open, temp_dir, calleeVars, envVars>>

\* The url download_pdf was called with.
FileInHand ==
  IF batch.at = "folder_files"
  THEN batch.extracted_files[batch.file_idx]
  ELSE batch.file_urls[batch.file_idx]

\* Lines 635-640 and 662-669: the result of download_pdf is counted and
\* appended; its locals are gone, the files it wrote are in the tree.
FileOutcome ==
  /\ pc = "done"
  /\ batch.at \in {"folder_files", "files"}
  /\ batch' = [batch EXCEPT
        !.results = Recorded(@, FileInHand, result.status,
                      IF result.status = "SUCCESS"
                      THEN Message(result.message, batch.output_dir,
                                   output_path)
                      ELSE Message(result.message, "", -1)),
        !.tree = [@ EXCEPT ![batch.output_dir] = downloads],
        !.file_idx = @ + 1]
  /\ pc' = IF batch.at = "folder_files" THEN "b_folder_files" ELSE "b_files"
  /\ downloads' = NoFiles
  /\ result' = NoResult
  /\ collected_urls' = <<>>
  /\ stop_reason' = "none"
  /\ seen' = {}
  /\ firstSeen' = <<>>
  /\ idx' = 0
  /\ image_data_list' = <<>>
  /\ tries' = <<>>
  /\ temp_image_paths' = <<>>
  /\ rgb_image_paths' = <<>>
  /\ output_path' = -1
  /\ compiled' = "none"
  /\ attempt' = 0
  /\ no_new_count' = 0
  /\ probes' = 0
  /\ lastNew' = 0
  /\ UNCHANGED <<page_open, temp_dir, gate_attempt, collected_file_ids,
                 file_urls, envVars, nameVars, mainVars>>

\* No finally: the summary follows the last file and the browser stays as
\* it is.
BrowserStaysOpen ==
  /\ pc = "b_finally"
  /\ pc' = "b_summary"
  /\ UNCHANGED <<batch, page_open, temp_dir, downloads, calleeVars, envVars,
                 nameVars, mainVars>>

\* Lines 673-674: browser.close() in the finally; if it raises, the
\* exception leaves download_multiple.
BrowserClose ==
  /\ pc = "b_finally"
  /\ \E raises \in BOOLEAN :
       pc' = IF raises THEN "b_raised" ELSE "b_summary"
  /\ batch' = [batch EXCEPT !.browser = "closed"]
  /\ UNCHANGED <<page_open, temp_dir, downloads, calleeVars, envVars, nameVars, mainVars>>

\* Lines 676-688: the summary.
Summarize ==
  /\ pc = "b_summary"
  /\ batch' = [batch EXCEPT
        !.summary = <<[total |-> Len(batch.urls),
                       success |-> batch.results.success,
                       failed |-> batch.results.failed,
                       details |-> batch.results.details]>>]
  /\ pc' = "b_returned"
  /\ UNCHANGED <<page_open, temp_dir, downloads, calleeVars, envVars, nameVars, mainVars>>

\* The remote side of a batch.  A folder shows one more of its entries at
\* each probe until all are shown; a document has one page; an advance
\* works; compile_pdf fails, if it does, at line 359.
FolderShows ==
  LET entries == batch.folder_urls[batch.folder_idx].entries
      shown == IF probes + 1 < entries THEN probes + 1 ELSE entries
  IN FolderRows([i \in 1..shown |-> i])

FolderProbeBatch ==
  FolderProbeReturns(FolderShows) /\ UNCHANGED <<envVars, batch, nameVars, mainVars>>

PageProbeBatch == PageProbeReturns(<<1>>) /\ UNCHANGED <<envVars, batch, nameVars, mainVars>>

BatchFaults(n) == {fault \in Faults(n) : fault.written = n
                                         /\ fault.failing = 0}

AssembleBatch ==
  \E fault \in BatchFaults(Len(image_data_list)) :
    AssembleWith(downloads, fault)

NextBatch ==
  \/ BatchStart
  \/ NextFolder
  \/ FolderOpen
  \/ FolderProbeBatch
  \/ FolderProbeRaises
  \/ FolderAdvanceOk
  \/ FolderSleep
  \/ FolderReturn
  \/ FolderExtracted
  \/ NextFolderFile
  \/ NextFile
  \/ DownloadOpen
  \/ GateWait
  \/ GateTimeout
  \/ Gate
  \/ GateRaises
  \/ GetTitle
  \/ PageProbeBatch
  \/ PageProbeRaises
  \/ PageAdvanceOk
  \/ PageSleep
  \/ BeginCapture
  \/ CapturePrimary
  \/ CaptureSecondary
  \/ AssembleBatch
  \/ FileOutcome
  \/ BrowserClose
  \/ Summarize

SpecBatch == InitBatch /\ [][NextBatch]_vars

(***************************************************************************)
(* SpecMain: main, lines 719-793, around download_multiple, with           *)
(* load_urls_from_file, lines 690-716.  args.link is empty or holds the    *)
(* link, args.file is empty or holds the file: whether it can be read, and *)
(* its lines.  A line is a url and whether its text starts with 'http'.    *)
(* The user may interrupt the run at any moment of asyncio.run.            *)
(***************************************************************************)
Line(http, url) == [http |-> http, url |-> url]

\* A file read for every line, whatever it starts with.
LoadEveryLine(file) ==
  IF file.readable THEN [i \in DOMAIN file.lines |-> file.lines[i].url]
  ELSE <<>>

\* Lines 690-716: the lines that start with 'http'; nothing if the file
\* cannot be read.
load_urls_from_file(file) ==
  IF file.readable
  THEN LET kept == SelectSeq(file.lines, LAMBDA line : line.http)
       IN [i \in DOMAIN kept |-> kept[i].url]
  ELSE <<>>

Links == {<<>>, <<Line(TRUE, FileUrl)>>, <<Line(FALSE, OtherUrl)>>}

Files ==
  {<<>>,
   <<[readable |-> FALSE, lines |-> <<>>]>>,
   <<[readable |-> TRUE, lines |-> <<Line(FALSE, OtherUrl)>>]>>,
   <<[readable |-> TRUE, lines |-> <<Line(TRUE, FolderUrl(1)),
                                      Line(FALSE, OtherUrl)>>]>>}

InitMain ==
  /\ pc = "m_args"
  /\ args \in [link : Links, file : Files]
  /\ exit_code = -1
  /\ interrupted = "none"
  /\ batch = NoBatch
  /\ downloads = NoFiles
  /\ page_open = FALSE
  /\ gate_attempt = 0
  /\ attempt = 0
  /\ no_new_count = 0
  /\ collected_urls = <<>>
  /\ collected_file_ids = {}
  /\ stop_reason = "none"
  /\ idx = 0
  /\ image_data_list = <<>>
  /\ temp_dir = NoFiles
  /\ temp_image_paths = <<>>
  /\ rgb_image_paths = <<>>
  /\ output_path = -1
  /\ compiled = "none"
  /\ file_urls = <<>>
  /\ result = NoResult
  /\ seen = {}
  /\ firstSeen = <<>>
  /\ probes = 0
  /\ lastNew = 0
  /\ tries = <<>>
  /\ filename = <<>>
  /\ sanitized = <<>>
  /\ view = <<>>
  /\ period = 1
  /\ burst = 1

\* What a step of main leaves alone.
runVars == <<temp_dir, downloads, calleeVars, envVars, nameVars>>

\* Lines 767-769: neither --link nor --file.
MainValidate ==
  /\ pc = "m_args"
  /\ IF args.link = <<>> /\ args.file = <<>>
     THEN exit_code' = 1 /\ pc' = "exited"
     ELSE exit_code' = exit_code /\ pc' = "m_urls"
  /\ UNCHANGED <<args, interrupted, batch, page_open, runVars>>

\* Lines 775-783 and 786: the link as it is given, then the urls of the file;
\* without any, exit code 1, else download_multiple is run.
MainPrepare ==
  /\ pc = "m_urls"
  /\ LET urls == [i \in DOMAIN args.link |-> args.link[i].url]
                 \o (IF args.file = <<>> THEN <<>>
                     ELSE load_urls_from_file(args.file[1]))
     IN IF urls = <<>>
        THEN exit_code' = 1 /\ pc' = "exited" /\ UNCHANGED batch
        ELSE exit_code' = exit_code /\ pc' = "b_call"
             /\ batch' = BatchOf(urls, NoFiles)
  /\ UNCHANGED <<args, interrupted, page_open, runVars>>

\* asyncio.run returns and main ends.
MainReturns ==
  /\ pc = "b_returned"
  /\ exit_code' = 0
  /\ pc' = "exited"
  /\ UNCHANGED <<args, interrupted, batch, page_open, runVars>>

\* Lines 791-793: an exception left download_multiple.
MainFatal ==
  /\ pc = "b_raised"
  /\ exit_code' = 1
  /\ pc' = "exited"
  /\ UNCHANGED <<args, interrupted, batch, page_open, runVars>>

\* Lines 788-790: the interrupt ends asyncio.run where it is: no handler of
\* download_multiple or of its callees catches it, the finally clauses of
\* lines 573 and 673 close the page and the browser.
Interrupt ==
  /\ pc \notin {"m_args", "m_urls", "exited"}
  /\ interrupted' = pc
  /\ exit_code' = 130
  /\ pc' = "exited"
  /\ page_open' = FALSE
  /\ batch' = IF batch.browser = "open"
              THEN [batch EXCEPT !.browser = "closed"] ELSE batch
  /\ UNCHANGED <<args, runVars>>

NextMain ==
  \/ MainValidate
  \/ MainPrepare
  \/ NextBatch
  \/ MainReturns
  \/ MainFatal
  \/ Interrupt

SpecMain == InitMain /\ [][NextMain]_vars

(***************************************************************************)
(* SpecNames: sanitize_filename, lines 58-68, and its two callers: the     *)
(* document's title (lines 143-158 and 550-552) and the folder's title     *)
(* (lines 399-407).  A string is a sequence of characters; view is the     *)
(* title the page shows: any short string, or a run of letters up to the   *)
(* length limit followed by any short string.  No title here holds         *)
(* ' - Google Drive', which both callers cut out first.                    *)
(***************************************************************************)
\* Line 61: < > : " / \ | ? * and the control characters.
illegal_chars == {"<", ">", ":", "\"", "/", "\\", "|", "?", "*",
                  "\t", "\n", "\r", "\f"}

\* What str.strip() takes off.
Whitespace == {" ", "\t", "\n", "\r", "\f"}

RECURSIVE RStrip(_, _)
RStrip(s, chars) ==
  IF s # <<>> /\ s[Len(s)] \in chars
  THEN RStrip(SubSeq(s, 1, Len(s) - 1), chars)
  ELSE s

RECURSIVE LStrip(_, _)
LStrip(s, chars) ==
  IF s # <<>> /\ s[1] \in chars THEN LStrip(Tail(s), chars) ELSE s

Strip(s) == LStrip(RStrip(s, Whitespace), Whitespace)

\* Line 62: re.sub(illegal_chars, '_', filename).
Substituted(s) ==
  [i \in DOMAIN s |-> IF s[i] \in illegal_chars THEN "_" ELSE s[i]]

\* Lines 66-67.
Limited(s) ==
  IF Len(s) > filename_limit THEN SubSeq(s, 1, filename_limit) ELSE s

sanitize_filename(name) == Limited(RStrip(Substituted(name), {".", " "}))

gdrive_document == <<"g", "d", "r", "i", "v", "e", "_",
                     "d", "o", "c", "u", "m", "e", "n", "t">>
gdrive_folder == <<"g", "d", "r", "i", "v", "e", "_", "f", "o", "l", "d", "e", "r">>
PdfSuffix == <<".", "p", "d", "f">>

TitleChars == {"a", ".", " ", "/", "\t"}

Letters(n) == [i \in 1..n |-> "a"]

Titles ==
  {Letters(n) \o tail :
     n \in {0, filename_limit - 2, filename_limit - 1},
     tail \in SeqsUpTo(TitleChars, MaxTail)}

InitNames ==
  /\ InitCommon
  /\ pc \in {"doc_title", "folder_title"}
  /\ downloads = NoFiles
  /\ view \in Titles
  /\ period = 1
  /\ burst = 1

\* What a step of SpecNames leaves alone.
otherVars == <<page_open, gate_attempt, loopVars, captureVars, compileVars,
               file_urls, result, envVars, batch, mainVars>>

\* get_document_title, lines 143-158: the title, stripped, or the default.
DocumentTitle ==
  /\ pc = "doc_title"
  /\ filename' = IF Strip(view) = <<>> THEN gdrive_document ELSE Strip(view)
  /\ pc' = "doc_call"
  /\ UNCHANGED <<sanitized, otherVars>>

\* Lines 387 and 399-407: folder_name is 'gdrive_folder' unless page.title()
\* returns a title; then it is the title stripped, sanitized if not empty.
FolderTitle ==
  /\ pc = "folder_title"
  /\ \E raises \in BOOLEAN :
       IF raises \/ view = <<>>
       THEN filename' = gdrive_folder /\ pc' = "folder_named"
       ELSE /\ filename' = Strip(view)
            /\ pc' = IF Strip(view) # <<>> THEN "folder_call"
                                           ELSE "folder_named"
  /\ UNCHANGED <<sanitized, otherVars>>

Callers == {"doc", "folder"}

\* Line 62.
SanitizeSub(caller) ==
  /\ pc = caller \o "_call"
  /\ sanitized' = Substituted(filename)
  /\ pc' = caller \o "_strip"
  /\ UNCHANGED <<filename, otherVars>>

\* Line 64.
SanitizeStrip(caller) ==
  /\ pc = caller \o "_strip"
  /\ sanitized' = RStrip(sanitized, {".", " "})
  /\ pc' = caller \o "_limit"
  /\ UNCHANGED <<filename, otherVars>>

\* Lines 66-68.
SanitizeLimit(caller) ==
  /\ pc = caller \o "_limit"
  /\ sanitized' = Limited(sanitized)
  /\ pc' = caller \o "_return"
  /\ UNCHANGED <<filename, otherVars>>

\* Lines 550-552: pdf_filename.
DocumentNamed ==
  /\ pc = "doc_return"
  /\ filename' = sanitized \o PdfSuffix
  /\ pc' = "doc_named"
  /\ UNCHANGED <<sanitized, otherVars>>

\* Line 405: folder_name.
FolderNamed ==
  /\ pc = "folder_return"
  /\ filename' = sanitized
  /\ pc' = "folder_named"
  /\ UNCHANGED <<sanitized, otherVars>>

NextNames ==
  \/ DocumentTitle
  \/ FolderTitle
  \/ \E caller \in Callers : SanitizeSub(caller)
  \/ \E caller \in Callers : SanitizeStrip(caller)
  \/ \E caller \in Callers : SanitizeLimit(caller)
  \/ DocumentNamed
  \/ FolderNamed

SpecNames == InitNames /\ [][NextNames]_vars

(***************************************************************************)
(* Properties.                                                             *)
(***************************************************************************)
IdsOf(list) == [i \in DOMAIN list |-> list[i].id]

Position(s, x) == CHOOSE i \in DOMAIN s : s[i] = x

\* s lists elements of order, each before the ones that order has after it.
InOrderOf(order, s) ==
  /\ Range(s) \subseteq Range(order)
  /\ \A i, j \in DOMAIN s :
       i < j => Position(order, s[i]) < Position(order, s[j])

PageLoopPcs == {"discover_probe", "discover_advance", "discover_fallback",
                "discover_sleep"}
FolderLoopPcs == {"f_probe", "f_advance", "f_fallback", "f_sleep"}

\* C1: whatever the probes report, an identifier repeated within one probe
\* or from one probe to the next, under whatever name, the collection holds
\* no identifier twice: it is never longer than the number of distinct
\* identifiers seen so far, and the urls returned for a folder name no
\* identifier twice.
C1_NoIdentifierTwice ==
  /\ NoDuplicates(collected_urls)
  /\ Range(collected_urls) \subseteq seen
  /\ Len(collected_urls) <= Cardinality(seen)
  /\ collected_file_ids \subseteq seen
  /\ Cardinality(collected_file_ids) <= Cardinality(seen)
  /\ NoDuplicates(file_urls)
  /\ Len(file_urls) <= Cardinality(seen)

\* Every identifier is collected, and probes went on reporting after that:
\* the last ones reported nothing but identifiers seen before, or nothing.
C1_Witness ==
  \/ /\ pc = "discover_advance"
     /\ Len(collected_urls) = NumIds
     /\ probes >= NumIds + 2
     /\ no_new_count = 2
  \/ /\ pc = "f_returned"
     /\ Len(file_urls) = NumIds
     /\ stop_reason = "idle"

\* C2: the pages are ordered by the first sighting of their identifier, in
\* the collection, in the captured images and in the pages of the written
\* file, and the order of what is collected never changes; a page captured
\* by the fallback stands where its identifier stands.
C2_FirstSeenOrder ==
  /\ collected_urls = firstSeen
  /\ InOrderOf(firstSeen, IdsOf(image_data_list))
  /\ result.status = "SUCCESS" =>
       /\ output_path \in DOMAIN downloads
       /\ IdsOf(downloads[output_path]) = IdsOf(image_data_list)
       /\ InOrderOf(firstSeen, IdsOf(downloads[output_path]))

\* Three urls first seen in the order 3, 1, 2, captured by fetch, canvas,
\* fetch: the file has the three pages in that order.
C2_Witness ==
  /\ result.status = "SUCCESS"
  /\ firstSeen = <<3, 1, 2>>
  /\ IdsOf(downloads[output_path]) = <<3, 1, 2>>
  /\ [i \in 1..3 |-> downloads[output_path][i].via]
       = <<"fetch", "canvas", "fetch">>

\* The probes made since the one that last reported a new identifier.
IdleProbes == probes - lastNew

\* C3: against a view that only grows and then stops growing, a discovery
\* loop makes at most max_idle_probes + 1 probes after the probe that
\* reported the last new identifier (8 + 1 for the pages, 15 + 1 for a
\* folder), and when it stops it has collected exactly the distinct
\* identifiers seen.
C3_Convergence ==
  /\ pc \in PageLoopPcs \cup {"discovered"} =>
       IdleProbes <= page_max_scroll_attempts + 1
  /\ pc \in FolderLoopPcs \cup {"f_scanned"} =>
       IdleProbes <= folder_max_scroll_attempts + 1
  /\ pc = "discovered" =>
       /\ Len(collected_urls) = Cardinality(seen)
       /\ Range(collected_urls) = seen
  /\ pc = "f_scanned" => collected_file_ids = seen

\* Both loops stop on idleness, all NumIds identifiers collected, the last
\* of them reported after some probes without it.
C3_Witness ==
  /\ stop_reason = "idle"
  /\ Cardinality(seen) = NumIds
  /\ lastNew > NumIds
  /\ \/ pc = "discovered" /\ IdleProbes = page_max_scroll_attempts
     \/ pc = "f_scanned" /\ IdleProbes = folder_max_scroll_attempts

\* C4, as the specification states it: when every probe reports new
\* identifiers, the loop stops on the cap with exactly max_items of them
\* (200 for the pages), never more.
C4_ExactlyCap ==
  /\ (period = 1 /\ pc = "discovered") =>
       /\ stop_reason = "cap"
       /\ Len(collected_urls) = max_pages_cap
  /\ (period = 1 /\ pc = "f_scanned") => stop_reason = "cap"

\* C5, as the specification states it: a probe that raises counts as a
\* probe without new items and the loop goes on, so a loop never stops on
\* such an error and what it collected before is part of its result.
C5_ProbeErrorIsIdleProbe ==
  /\ stop_reason # "error"
  /\ pc \in {"captured", "done"} => Len(tries) = Len(collected_urls)

\* C6: a discovery loop never makes more than max_probes probes (1000 for
\* the pages, 100 for a folder), whatever new items the view keeps showing:
\* each round of the loop is one probe, and the rounds are numbered below
\* max_probes.  One that the ceiling stops hands on what it collected, every
\* identifier seen, as its normal result.
C6_ProbeCeiling ==
  /\ pc \in PageLoopPcs \cup {"discovered"} =>
       probes <= page_max_probes /\ attempt < page_max_probes
  /\ pc \in FolderLoopPcs \cup {"f_scanned"} =>
       probes <= folder_max_probes /\ attempt < folder_max_probes
  /\ pc \in PageLoopPcs \cup FolderLoopPcs =>
       probes = IF pc \in {"discover_probe", "f_probe"} THEN attempt
                ELSE attempt + 1
  /\ stop_reason = "ceiling" =>
       \/ pc = "discovered" /\ collected_urls = firstSeen
                            /\ Range(collected_urls) = seen
       \/ pc = "f_scanned" /\ collected_file_ids = seen

\* The page loop is stopped by the ceiling after 1000 probes, short of the
\* cap, and the folder loop after 100.
C6_Witness ==
  /\ stop_reason = "ceiling"
  /\ \/ /\ pc = "discovered"
        /\ probes = page_max_probes
        /\ collected_urls # <<>>
        /\ Len(collected_urls) < max_pages_cap
     \/ /\ pc = "f_scanned"
        /\ probes = folder_max_probes
        /\ collected_file_ids # {}

\* The capture loop of one call is over.
CaptureOver ==
  pc \in {"captured", "done"} /\ Len(tries) = Len(collected_urls)

CapturedItems ==
  {i \in DOMAIN tries : collected_urls[i] \in Range(IdsOf(image_data_list))}

\* Items that neither the fetch nor the canvas export captured.
FailedBoth ==
  {i \in DOMAIN tries : tries[i].secondary = 1} \ CapturedItems

Without(s, i) ==
  [k \in 1..(Len(s) - 1) |-> IF k < i THEN s[k] ELSE s[k + 1]]

\* C7: when one of N collected items is captured by neither strategy and
\* every other item is, the capture loop raises nothing and goes on to every
\* later item, the list has the N - 1 captured pages in first-seen order,
\* and the file that assembly then writes has N - 1 pages.
C7_CaptureIsolation ==
  (CaptureOver /\ Cardinality(FailedBoth) = 1) =>
    LET failed == CHOOSE i \in FailedBoth : TRUE
    IN /\ \A i \in DOMAIN tries : tries[i].primary = 1
       /\ CapturedItems = DOMAIN tries \ {failed}
       /\ IdsOf(image_data_list) = Without(collected_urls, failed)
       /\ result.message # "Error"
       /\ result.status = "SUCCESS" =>
            IdsOf(downloads[output_path]) = Without(collected_urls, failed)

\* Of three items the second is captured by neither strategy; the first is
\* fetched, the third exported from its canvas; the file has two pages.
C7_Witness ==
  /\ pc = "done"
  /\ result.status = "SUCCESS"
  /\ Len(collected_urls) = 3
  /\ FailedBoth = {2}
  /\ tries[1].secondary = 0
  /\ tries[3].secondary = 1
  /\ Len(downloads[output_path]) = 2

\* C8: for every collected item the fetch is tried exactly once, the canvas
\* export at most once and only after the fetch of that item failed, and the
\* item gets at most one page; nothing is tried again.
C8_TriesPerItem ==
  /\ \A i \in DOMAIN tries :
       /\ tries[i].primary <= 1
       /\ tries[i].secondary <= 1
       /\ tries[i].secondary = 1 =>
            /\ tries[i].primary = 1
            /\ \A k \in DOMAIN image_data_list :
                 image_data_list[k].id = collected_urls[i] =>
                   image_data_list[k].via = "canvas"
       /\ Cardinality({k \in DOMAIN image_data_list :
                         image_data_list[k].id = collected_urls[i]}) <= 1
       /\ pc \in {"capture_primary", "capture_secondary"} =>
            tries[i].primary = (IF i < idx \/ (i = idx /\ pc = "capture_secondary")
                                THEN 1 ELSE 0)
  /\ CaptureOver => \A i \in DOMAIN tries : tries[i].primary = 1

\* Three items: one fetched, one exported after its fetch failed, one that
\* failed both ways.
C8_Witness ==
  /\ pc = "captured"
  /\ Len(tries) = 3
  /\ [i \in 1..3 |-> tries[i].secondary] = <<0, 1, 1>>
  /\ [k \in DOMAIN image_data_list |-> image_data_list[k].via]
       = <<"fetch", "canvas">>

\* C9, as the specification states it: when assembly returns, with success
\* or with failure, no intermediate file that it created is left.
C9_NoTempFilesLeft ==
  compiled # "none" => DOMAIN temp_dir = {}

\* C10, as the specification states it: when assembly fails, no file is at
\* the final name, neither a partial nor an empty one, and the outcome is
\* FAILED.
C10_NoPartialArtifact ==
  compiled = "false" =>
    /\ output_path \notin DOMAIN downloads
    /\ result.status = "FAILED"

\* Nothing went wrong around the images in a call of compile_pdf: every temp
\* file was written, every image with transparency got its .jpg, and the
\* destination was opened.
NoFaultAround ==
  /\ Len(temp_image_paths) = Len(image_data_list)
  /\ Len(rgb_image_paths) = Len(image_data_list)
  /\ \A i \in DOMAIN image_data_list :
       NeedsConvert(image_data_list[i].mode) => rgb_image_paths[i] = Jpg(i - 1)
  /\ output_path \in DOMAIN downloads

Undecodable == {i \in DOMAIN image_data_list : image_data_list[i].mode = "bad"}

\* C11, as the specification states it: compile_pdf drops an image that
\* cannot be decoded and goes on with the others, so M images of which one
\* is undecodable give a file of M - 1 pages.
C11_UndecodableDropped ==
  (/\ pc = "c_done"
   /\ Len(image_data_list) >= 2
   /\ Cardinality(Undecodable) = 1
   /\ NoFaultAround) =>
    /\ compiled = "true"
    /\ IdsOf(downloads[output_path]) =
         Without(IdsOf(image_data_list), CHOOSE i \in Undecodable : TRUE)

\* C12: compile_pdf called with no image returns False at once: no temp
\* file is written, no path is listed, and the output directory holds what
\* it held, nothing at the destination.
C12_EmptyFailsAtOnce ==
  (pc = "c_done" /\ image_data_list = <<>>) =>
    /\ compiled = "false"
    /\ DOMAIN temp_dir = {}
    /\ temp_image_paths = <<>>
    /\ rgb_image_paths = <<>>
    /\ output_path \notin DOMAIN downloads
    /\ downloads \in Directories

\* compile_pdf has returned from a call with no image, for a destination
\* next to files that were there before.
C12_Witness ==
  /\ pc = "c_done"
  /\ image_data_list = <<>>
  /\ output_path = 1
  /\ DOMAIN downloads = {0}

\* C14: the destination name computed again, no file created in between, is
\* the same name; computed after the file of the first name exists, it is
\* another name, a later one in the sequence of suffixes, and free.
C14_IdempotentNaming ==
  [][/\ (pc = "c_named" /\ pc' = "c_named") => output_path' = output_path
     /\ (pc = "c_done" /\ pc' = "c_again" /\ output_path \in DOMAIN downloads)
          => /\ output_path' # output_path
             /\ output_path' > output_path
             /\ output_path' \notin DOMAIN downloads]_vars

\* The name was computed a second time after compile_pdf wrote the file of
\* the first name, '<title>_1.pdf' next to an older '<title>.pdf'.
C14_Witness ==
  /\ pc = "c_again"
  /\ compiled = "true"
  /\ output_path = 2
  /\ DOMAIN downloads = {0, 1}
  /\ downloads[1] # OldFile

\* C18: when all max_retries = 10 probes of the gate report no page, the
\* document is FAILED because no pages were detected: that result comes
\* with the tenth probe and no other, the page is closed, and neither the
\* discovery loop nor the capture nor compile_pdf has run: nothing is
\* collected, nothing captured, no temp file and no file in the output
\* directory.
C18_GateGivesUp ==
  /\ [](result.message = "Could not detect PDF pages" =>
          /\ result.status = "FAILED"
          /\ pc = "done"
          /\ ~page_open
          /\ probes = 0 /\ seen = {} /\ collected_urls = <<>>
          /\ tries = <<>> /\ image_data_list = <<>>
          /\ compiled = "none" /\ output_path = -1
          /\ temp_dir = NoFiles /\ downloads = NoFiles)
  /\ [](pc = "gate" => gate_attempt < max_retries)
  /\ [][result'.message = "Could not detect PDF pages" =>
          pc = "gate" /\ gate_attempt = max_retries - 1]_vars

\* The gate has given up.
C18_Witness ==
  /\ pc = "done"
  /\ result = Failed("Could not detect PDF pages")

\* C17: a folder expanded to files lists them in the order their entries
\* were first seen, one url per identifier; in SpecBatch the entries are
\* numbered in the order the probes show them.
C17_FirstSeenExpansion ==
  pc = "f_returned" /\ file_urls # <<>>
    => file_urls = [i \in 1..Len(file_urls) |-> i]

\* The positions of download_multiple itself, and whether download_pdf is
\* running for it.
BatchPcs == {"b_call", "b_folders", "b_folder_files", "b_files", "b_finally",
             "b_summary", "b_returned", "b_raised"}

InDownload == pc \notin BatchPcs /\ batch.at \in {"folder_files", "files"}

\* The output tree as it is on disk: download_pdf works on the directory it
\* was given.
Tree == IF InDownload
        THEN [batch.tree EXCEPT ![batch.output_dir] = downloads]
        ELSE batch.tree

Details == batch.results.details

Saved == {i \in DOMAIN Details : Details[i].status = "SUCCESS"}

\* C13: download_pdf writes to '<title>.pdf' if that name is free and else
\* to '<title>_k.pdf' for the smallest free k >= 1, so no file of the output
\* tree is ever overwritten or removed; the documents saved in one batch have
\* pairwise distinct artifacts, each holding pages, and of two saved to the
\* same directory the later one carries a suffix.
C13_NoOverwrite ==
  /\ [](\A i \in Saved, j \in Saved :
          LET a == Details[i].message
              b == Details[j].message
          IN /\ a.path \in DOMAIN Tree[a.dir]
             /\ Tree[a.dir][a.path] # <<>>
             /\ i < j /\ a.dir = b.dir => a.path # b.path /\ b.path >= 1)
  /\ [][/\ \A d \in DOMAIN Tree : \A k \in DOMAIN Tree[d] :
             k \in DOMAIN Tree'[d] /\ Tree'[d][k] = Tree[d][k]
        /\ pc = "captured" /\ output_path' # output_path
             => /\ output_path' \notin DOMAIN downloads
                /\ \A k \in 0..(output_path' - 1) : k \in DOMAIN downloads]_vars

\* Two files of one title saved to a directory that held '<title>.pdf'.
C13_Witness ==
  /\ pc = "b_returned"
  /\ 0 \in DOMAIN batch.tree["downloads"]
  /\ batch.tree["downloads"][0] = OldFile
  /\ Len(Details) = 2
  /\ Saved = {1, 2}
  /\ Details[1].message.path = 1
  /\ Details[2].message.path = 2

\* The last n details are the outcomes of the urls files, in their order.
OutcomesOf(files) ==
  /\ Len(Details) >= Len(files)
  /\ \A i \in DOMAIN files :
       Details[Len(Details) - Len(files) + i].url = files[i]

FailureTexts == {"Error", "Could not detect PDF pages",
                 "Failed to capture PDF pages", "Failed to compile PDF"}

\* C15: whatever fails in download_pdf, it returns: no exception leaves
\* download_multiple from inside a download; the return appends exactly one
\* detail, with the file's url, the returned status and message (for FAILED
\* the message of the stage that failed), and the loop goes on to the next
\* file; when a folder's loop or the loop of the files ends, every one of its
\* files has its outcome, in order.
C15_FailureIsolated ==
  [][/\ pc' = "b_raised" => pc \in {"b_call", "f_returned", "b_finally"}
     /\ InDownload /\ pc # "done" => Details' = Details
     /\ InDownload /\ pc = "done" =>
          /\ Details' = Append(Details, Details'[Len(Details')])
          /\ Details'[Len(Details')].url = FileInHand
          /\ Details'[Len(Details')].status = result.status
          /\ Details'[Len(Details')].message.text = result.message
          /\ result.status = "FAILED" => result.message \in FailureTexts
          /\ result.status \in {"FAILED", "SUCCESS"}
          /\ batch'.file_idx = batch.file_idx + 1
          /\ pc' \in {"b_folder_files", "b_files"}
     /\ pc = "b_folder_files" /\ pc' = "b_folders" =>
          OutcomesOf(batch.extracted_files)
     /\ pc = "b_files" /\ pc' = "b_finally" =>
          OutcomesOf(batch.file_urls)]_vars

\* The first folder's only file failed in compile_pdf; the file of the second
\* folder and the standalone file were saved after it.
C15_Witness ==
  /\ pc = "b_returned"
  /\ Len(batch.folder_urls) = 2
  /\ Len(Details) = 3
  /\ Details[1].status = "FAILED"
  /\ Details[1].message.text = "Failed to compile PDF"
  /\ Saved = {2, 3}

InExpansion == pc \notin BatchPcs /\ batch.at = "folders"

FolderInHand == batch.folder_urls[batch.folder_idx]

FolderDetails == {i \in DOMAIN Details : Details[i].url.folder}

\* C16: a folder whose page cannot be opened is returned without files; a
\* folder returned without files gets exactly one FAILED detail, with its own
\* url, and the next folder is taken; a folder returned with files gets no
\* detail of its own: its files are the urls of the returned entries, each of
\* which has its outcome when the folder's loop ends.  So the details are
\* those of the downloads and at most one per expanded folder.
C16_FolderOutcome ==
  /\ [](pc \in BatchPcs =>
          /\ Cardinality(FolderDetails) <= batch.expansions
          /\ Len(Details) = Cardinality(FolderDetails) + batch.processed
               + (IF batch.at = "files" /\ batch.file_idx > 0
                  THEN batch.file_idx - 1 ELSE 0))
  /\ [][/\ pc = "f_open" /\ ~page_open' =>
             pc' = "f_returned" /\ file_urls' = <<>>
        /\ InExpansion /\ pc # "f_returned" => Details' = Details
        /\ pc = "f_returned" /\ file_urls = <<>> =>
             /\ Details' = Append(Details,
                    [url |-> FolderInHand, status |-> "FAILED",
                     message |-> Message("No files found in folder", "", -1)])
             /\ batch'.results.failed = batch.results.failed + 1
             /\ batch'.folder_idx = batch.folder_idx + 1
             /\ pc' = "b_folders"
        /\ pc = "f_returned" /\ file_urls # <<>> =>
             /\ Details' = Details
             /\ pc' = "b_folder_files" =>
                  batch'.extracted_files =
                    [i \in DOMAIN file_urls |-> EntryUrl(file_urls[i])]
        /\ pc = "b_folder_files" /\ pc' = "b_folders" =>
             /\ OutcomesOf(batch.extracted_files)
             /\ batch'.folder_idx = batch.folder_idx + 1]_vars

\* An empty folder, then a folder of one entry, then the standalone file.
C16_Witness ==
  /\ pc = "b_returned"
  /\ Len(Details) = 3
  /\ Details[1].url = FolderUrl(0)
  /\ Details[1].message.text = "No files found in folder"
  /\ Details[2].url = EntryUrl(1)
  /\ Details[3].url = FileUrl

\* C19: the run goes from expanding folders to processing folder files to
\* processing standalone files to the summary and never back: no folder is
\* being expanded once a file of a folder has been processed, no standalone
\* file is in hand before the last folder is over, and the summary holds
\* every outcome.
C19_PhasesInOrder ==
  /\ InExpansion => batch.processed = 0
  /\ InDownload /\ batch.at = "files" =>
       batch.folder_idx > Len(batch.folder_urls)
  /\ batch.summary # <<>> => batch.summary[1].details = Details

\* C20: one page at a time and one callee at a time: a page is opened only by
\* the first step of download_pdf or of extract_files_from_folder, when none
\* is open; it has been closed when the callee has returned, with a result or
\* with a failure, so none is open while download_multiple itself runs; and
\* a folder is never being expanded while a document is being downloaded.
C20_OnePageAtATime ==
  /\ [](/\ pc \in BatchPcs \cup {"dl_open", "f_open", "done", "f_returned"}
             => ~page_open
        /\ ~(InDownload /\ InExpansion))
  /\ [][/\ page_open' /\ ~page_open => pc \in {"dl_open", "f_open"}
        /\ pc \in {"dl_open", "f_open"} => pc' \notin {"dl_open", "f_open"}]_vars

\* A page is open for the second document of a folder after the first one
\* failed in compile_pdf, with its page open until then.
C20_Witness ==
  /\ page_open
  /\ InDownload
  /\ batch.expansions = 1
  /\ Len(Details) = 1
  /\ Details[1].status = "FAILED"
  /\ Details[1].message.text = "Failed to compile PDF"

Unsaved == {i \in DOMAIN Details : Details[i].status = "FAILED"}

\* C21: in every state of download_multiple results['success'] is the number
\* of details with status SUCCESS and results['failed'] the number with
\* status FAILED, the two add up to the number of details, and a step only
\* appends to the details: what is recorded stays as it is, where it is.
C21_CountsAgree ==
  /\ [](/\ batch.results.success = Cardinality(Saved)
        /\ batch.results.failed = Cardinality(Unsaved)
        /\ batch.results.success + batch.results.failed = Len(Details))
  /\ [][/\ Len(Details') >= Len(Details)
        /\ Len(Details') <= Len(Details) + 1
        /\ \A i \in DOMAIN Details : Details'[i] = Details[i]]_vars

\* A summary of one saved and two failed documents.
C21_Witness ==
  /\ batch.summary # <<>>
  /\ batch.summary[1].success = 1
  /\ batch.summary[1].failed = 2
  /\ Len(batch.summary[1].details) = 3

Returned == pc \in {"doc_return", "folder_return"}

\* C22: sanitize_filename never returns the empty name, so no document is
\* written to '.pdf' and no folder is named with the empty string.
C22_NeverEmptyName ==
  /\ Returned => sanitized # <<>>
  /\ pc = "doc_named" => filename # PdfSuffix
  /\ pc = "folder_named" => filename # <<>>

\* C23: what sanitize_filename returns has at most 200 characters, none of
\* them illegal, and does not end with a dot or a space.
C23_SanitizedShape ==
  Returned =>
    /\ Len(sanitized) <= filename_limit
    /\ \A i \in DOMAIN sanitized : sanitized[i] \notin illegal_chars
    /\ sanitized # <<>> => sanitized[Len(sanitized)] \notin {".", " "}

\* a is b with some elements left out.
RECURSIVE IsSubSeq(_, _)
IsSubSeq(a, b) ==
  IF a = <<>> THEN TRUE
  ELSE IF b = <<>> THEN FALSE
  ELSE IF Head(a) = Head(b) THEN IsSubSeq(Tail(a), Tail(b))
  ELSE IsSubSeq(a, Tail(b))

Classified == pc \notin {"b_call"} /\ batch.urls # <<>>

\* C24: once the urls are classified, the folder list holds the urls with
\* the folder pattern and the file list all the others, recognised or not,
\* each list in input order, and together as many as the input: every url is
\* in exactly one list; the lists never change afterwards, and every url of
\* the file list has had its download when the loop of the files is over.
C24_ClassifiedOnce ==
  /\ [](Classified =>
          /\ \A i \in DOMAIN batch.folder_urls : batch.folder_urls[i].folder
          /\ \A i \in DOMAIN batch.file_urls : ~batch.file_urls[i].folder
          /\ IsSubSeq(batch.folder_urls, batch.urls)
          /\ IsSubSeq(batch.file_urls, batch.urls)
          /\ Len(batch.folder_urls) + Len(batch.file_urls) = Len(batch.urls))
  /\ [][/\ batch'.urls = batch.urls
        /\ pc # "b_call" => /\ batch'.folder_urls = batch.folder_urls
                            /\ batch'.file_urls = batch.file_urls
        /\ pc = "b_files" /\ pc' = "b_finally" =>
             \A i \in DOMAIN batch.file_urls :
               Details[Len(Details) - Len(batch.file_urls) + i].url
                 = batch.file_urls[i]]_vars

\* The url of neither kind was downloaded as a document, the url with both
\* patterns expanded as a folder.
C24_Witness ==
  /\ pc = "b_returned"
  /\ batch.urls = <<OtherUrl, BothUrl>>
  /\ batch.folder_urls = <<BothUrl>>
  /\ batch.file_urls = <<OtherUrl>>
  /\ Len(Details) = 2
  /\ Details[1].url = BothUrl
  /\ Details[2].url = OtherUrl

\* C25: when compile_pdf is about to write the temporary files of a
\* document, the temp directory holds no file of another document.
C25_TempWorkspaceOwned ==
  pc = "captured" /\ image_data_list # <<>> => temp_dir = NoFiles

\* C26: an interrupt takes effect between two units of work only, when
\* download_multiple itself is running and no folder is being expanded and
\* no document discovered, captured or assembled; the run then ends with
\* exit code 130 and the browser closed.
C26_InterruptBetweenUnits ==
  interrupted # "none" =>
    /\ interrupted \in BatchPcs
    /\ exit_code = 130
    /\ batch.browser # "open"

\* The urls main has to process: the link, and the lines of a readable file
\* that start with 'http'.
GivenUrls ==
  [i \in DOMAIN args.link |-> args.link[i].url]
  \o (IF args.file # <<>> /\ args.file[1].readable
      THEN LET lines == args.file[1].lines
               kept == SelectSeq(lines, LAMBDA line : line.http)
           IN [i \in DOMAIN kept |-> kept[i].url]
      ELSE <<>>)

Launched == batch # NoBatch /\ batch.browser # "none"

\* C27: the process ends with 1 and without a browser when neither a link
\* nor a file is given or when they give no url; with 130 if and only if the
\* user interrupted the run; with 1 when an exception left download_multiple,
\* which then printed no summary; and with 0 when download_multiple returned,
\* whatever its outcomes.
C27_ExitCodes ==
  /\ [](/\ exit_code \in {-1, 0, 1, 130}
        /\ pc = "exited" <=> exit_code # -1
        /\ pc = "exited" /\ GivenUrls = <<>> => exit_code = 1 /\ ~Launched
        /\ exit_code = 130 <=> interrupted # "none"
        /\ exit_code = 0 => batch # NoBatch /\ batch.summary # <<>>
        /\ exit_code = 1 /\ batch # NoBatch => batch.summary = <<>>)
  /\ [][exit_code' # exit_code =>
          /\ exit_code = -1
          /\ pc = "b_returned" /\ interrupted' = "none" => exit_code' = 0
          /\ pc = "b_raised" /\ interrupted' = "none" => exit_code' = 1
          /\ exit_code' = 0 => pc = "b_returned"
          /\ exit_code' = 1 => pc \in {"m_args", "m_urls", "b_raised"}]_vars

\* Exit code 0 after one document saved and one failed.
C27_Witness ==
  /\ pc = "exited"
  /\ exit_code = 0
  /\ batch.results.success = 1
  /\ batch.results.failed = 1

Round(at, to, probe, advance, fallback, sleep, stopped) ==
  /\ at = probe => to \in {advance, stopped}
  /\ at = advance => to \in {sleep, fallback}
  /\ at = fallback => to = sleep
  /\ at = sleep => to \in {probe, stopped}
  /\ to = probe => at = sleep
  /\ to = advance => at = probe
  /\ to = sleep => at \in {advance, fallback}

Collected == <<collected_urls, collected_file_ids, no_new_count>>

\* C30: when the preferred advance raises, the fallback is next; whether it
\* works or raises, the delay follows it and then the next probe: the
\* fallback is tried once, and neither failure changes what is collected or
\* the idle counter, stops the loop, closes the page or sets a result.
C30_FallbackSwallowed ==
  [][/\ pc \in {"discover_advance", "f_advance"} =>
          /\ pc' \in {"discover_sleep", "discover_fallback", "f_sleep",
                      "f_fallback"}
          /\ Collected' = Collected
          /\ stop_reason' = stop_reason
     /\ pc = "discover_fallback" => pc' = "discover_sleep"
     /\ pc = "f_fallback" => pc' = "f_sleep"
     /\ pc \in {"discover_fallback", "f_fallback"} =>
          /\ Collected' = Collected
          /\ stop_reason' = stop_reason /\ stop_reason = "none"
          /\ page_open' = page_open
          /\ result' = result
          /\ attempt' = attempt
     /\ pc' \in {"discover_fallback", "f_fallback"} =>
          pc \in {"discover_advance", "f_advance"}]_vars

\* The preferred advance has raised in a loop that has collected an
\* identifier and counted idle probes.
C30_Witness ==
  /\ pc \in {"discover_fallback", "f_fallback"}
  /\ seen # {}
  /\ no_new_count > 1

\* The positions of wait_for_pdf_pages.
GatePcs == {"gate_wait", "gate_timeout", "gate"}

\* C31: wait_for_pdf_pages is bounded on its own count.  While it runs,
\* gate_attempt is the number of probes made so far, all of which found no
\* page, and it is below max_retries = 10, so at most ten probes are made;
\* the discovery loop's counters are untouched, and the gate's counter is
\* not in use while the discovery loop runs.  A probe that finds a page
\* returns True at once, and the gate is never entered again; a probe that
\* finds none is followed by the next attempt, one more than the one before,
\* or, as the tenth, by the result that no pages were detected.  A wait that
\* timed out is followed by the probe of the same attempt.
C31_GateBounded ==
  /\ [](pc \in GatePcs =>
          /\ gate_attempt < max_retries
          /\ attempt = 0 /\ no_new_count = 0 /\ probes = 0
          /\ result = NoResult)
  /\ [](pc \in PageLoopPcs => gate_attempt = 0)
  /\ [][pc = "gate" =>
          /\ pc' = "title" <=> Len(view') > 0
          /\ pc' = "title" => result' = result /\ page_open'
          /\ pc' = "gate_wait" => gate_attempt' = gate_attempt + 1
          /\ result'.message = "Could not detect PDF pages" =>
               gate_attempt = max_retries - 1 /\ Len(view') = 0
          /\ Len(view') = 0 /\ gate_attempt < max_retries - 1
               /\ result'.status # "FAILED" => pc' = "gate_wait"]_vars
  /\ [][pc = "gate_wait" =>
          pc' \in {"gate", "gate_timeout"} /\ gate_attempt' = gate_attempt]_vars
  /\ [][pc = "gate_timeout" =>
          /\ pc' = "gate"
          /\ gate_attempt' = gate_attempt
          /\ result' = result
          /\ page_open' = page_open]_vars
  /\ [][pc \notin GatePcs \cup {"dl_open"} => pc' \notin GatePcs]_vars

\* Nine probes found no page and the wait of the tenth attempt has timed
\* out: the gate is still running.
C31_Witness ==
  /\ pc = "gate_timeout"
  /\ gate_attempt = max_retries - 1
  /\ page_open

\* The destinations of the documents saved so far.
SavedPaths ==
  {<<Details[i].message.dir, Details[i].message.path>> : i \in Saved}

\* The files with pages that this run has put into the output tree.
Artifacts ==
  UNION {{<<d, k>> : k \in {n \in DOMAIN batch.tree[d] :
                              batch.tree[d][n] \notin {<<>>, OldFile}}} :
         d \in DOMAIN batch.tree}

\* C32: every SUCCESS recorded in the results has its own file: the path of
\* its message is a file with pages that this run created, no two SUCCESS
\* outcomes name the same file, and the file was not in the directory when
\* download_pdf was called; compile_pdf returns True only for a path that was
\* free when it was chosen and that holds the pages afterwards.  A FAILED
\* outcome of the gate, of the capture step or of an error before them
\* leaves the output tree as it was.
C32_SuccessHasArtifact ==
  /\ [](SavedPaths \subseteq Artifacts)
  /\ [](Cardinality(SavedPaths) = Cardinality(Saved))
  /\ [][pc = "captured" /\ compiled' = "true" =>
          /\ output_path' \notin DOMAIN downloads
          /\ output_path' \in DOMAIN downloads'
          /\ downloads'[output_path'] \notin {<<>>, OldFile}
          /\ result'.status = "SUCCESS"]_vars
  /\ [][result'.status = "SUCCESS" /\ result.status # "SUCCESS" =>
          pc = "captured" /\ compiled' = "true"]_vars
  /\ [][Len(Details') = Len(Details) + 1 =>
          LET d == Details'[Len(Details')]
          IN /\ d.status = "SUCCESS" =>
                  /\ d.message.dir = batch.output_dir
                  /\ d.message.path \notin DOMAIN batch.tree[d.message.dir]
                  /\ <<d.message.dir, d.message.path>> \in Artifacts'
             /\ d.status = "FAILED"
                  /\ d.message.text \in {"Error", "Could not detect PDF pages",
                                         "Failed to capture PDF pages"}
                  => batch.tree' = batch.tree]_vars

\* A batch of two files: the first stopped at the gate, the second saved.
C32_Witness ==
  /\ pc = "b_returned"
  /\ Len(Details) = 2
  /\ Details[1].status = "FAILED"
  /\ Details[1].message.text = "Could not detect PDF pages"
  /\ Details[2].status = "SUCCESS"
  /\ Cardinality(Artifacts) = 1

\* The pages of an artifact are the given images, one for one and in their
\* order.
OwnPages(pages, images) ==
  /\ Len(pages) = Len(images)
  /\ \A i \in DOMAIN images :
       pages[i].id = images[i].id /\ pages[i].via = images[i].via

\* C33: when compile_pdf has returned, the file at its destination holds
\* nothing or exactly the images it was called with, page i from image i,
\* whatever the temp directory held when it was called; the paths it hands to
\* img2pdf are page_000i.png or page_000i.jpg of its own images, and every
\* one of them was written by this call.
C33_OwnImagesOnly ==
  pc = "c_done" =>
    /\ Len(temp_image_paths) <= Len(image_data_list)
    /\ \A i \in DOMAIN temp_image_paths : temp_image_paths[i] = Png(i - 1)
    /\ \A i \in DOMAIN rgb_image_paths :
         rgb_image_paths[i] \in {Png(i - 1), Jpg(i - 1)}
    /\ output_path \in DOMAIN downloads =>
         \/ downloads[output_path] = <<>>
         \/ OwnPages(downloads[output_path], image_data_list)
    /\ compiled = "true" =>
         /\ output_path \in DOMAIN downloads
         /\ OwnPages(downloads[output_path], image_data_list)
         /\ Len(rgb_image_paths) = Len(image_data_list)

\* The second document, of one image, is saved although the temp directory
\* held page_0000.png, page_0000.jpg and page_0001.png of the first, whose
\* assembly failed; the two that were not written again are still there.
C33_Witness ==
  /\ pc = "c_done"
  /\ compiled = "true"
  /\ IsLater(image_data_list)
  /\ Len(image_data_list) = 1
  /\ Jpg(0) \in DOMAIN temp_dir
  /\ temp_dir[Jpg(0)].id <= MaxImages
  /\ Png(1) \in DOMAIN temp_dir
  /\ temp_dir[Png(1)].id <= MaxImages
  /\ OwnPages(downloads[output_path], image_data_list)

\* C34: when extract_files_from_folder has returned after a probe raised,
\* it has returned one url for every entry collected before the error, so
\* the folder is without files only when nothing was collected.
C34_ProbeErrorKeepsEntries ==
  pc = "f_returned" /\ stop_reason = "error" =>
    /\ Len(file_urls) = Cardinality(collected_file_ids)
    /\ Range(file_urls) = collected_file_ids

\* C35: when capture_blob_images has run and returned no image, whether
\* every collected item failed both strategies or a probe raised, download_pdf
\* ends FAILED with 'Failed to capture PDF pages' and the page closed:
\* compile_pdf was not called, no destination name was computed, and the temp
\* and output directories hold nothing.  With an image in the list that
\* result is not given.
C35_CaptureYieldsNothing ==
  /\ pc = "done" /\ stop_reason # "none" /\ image_data_list = <<>> =>
       /\ result = Failed("Failed to capture PDF pages")
       /\ ~page_open
       /\ compiled = "none"
       /\ output_path = -1
       /\ temp_image_paths = <<>> /\ rgb_image_paths = <<>>
       /\ temp_dir = NoFiles
       /\ downloads = NoFiles
  /\ result.message = "Failed to capture PDF pages" =>
       pc = "done" /\ stop_reason # "none" /\ image_data_list = <<>>
  /\ pc = "captured" => compiled = "none" /\ output_path = -1

\* Two pages were discovered, the fetch and the canvas export failed for
\* both, and the document has its FAILED outcome.
C35_Witness ==
  /\ pc = "done"
  /\ result = Failed("Failed to capture PDF pages")
  /\ Len(collected_urls) = 2
  /\ Len(tries) = 2
  /\ FailedBoth = {1, 2}

\* download_multiple has been left, by return or by an exception.
BatchOver == pc \in {"b_returned", "b_raised"}

\* C36: whatever the calls of a batch do, return or raise, a batch whose
\* browser was launched is not left before its summary is printed.
C36_ReachesSummary ==
  BatchOver /\ Launched => batch.summary # <<>>

\* Positions at which a folder or a document is being processed.
Processing ==
  batch # NoBatch /\ pc # "exited" /\ (InDownload \/ InExpansion)

\* C37: download_multiple launches its browser at its start and nowhere
\* else, and closes it once: a browser that is closed was open and is never
\* open again.  Every folder and every document is processed with that
\* browser open, a page is open only while it is, and nothing is processed
\* once it is closed.  However download_multiple is left after the launch,
\* by its return, by an exception or by an interrupt, the browser is closed.
C37_OneBrowser ==
  /\ [](Processing => batch.browser = "open")
  /\ [](page_open => batch # NoBatch /\ batch.browser = "open")
  /\ [](pc \in {"b_folders", "b_folder_files", "b_files", "b_finally"} =>
          batch.browser = "open")
  /\ [](pc \in {"b_summary", "b_returned", "b_raised", "exited"} /\ Launched
          => batch.browser = "closed")
  /\ [][batch # NoBatch /\ batch' # NoBatch =>
          /\ batch'.browser = "open" /\ batch.browser # "open" =>
               pc = "b_call" /\ batch.browser = "none"
          /\ batch'.browser = "closed" /\ batch.browser # "closed" =>
               batch.browser = "open"
          /\ batch.browser = "closed" => batch'.browser = "closed"
          /\ batch'.browser = "none" => batch.browser = "none"]_vars

\* The run was interrupted in the middle of a document's discovery loop,
\* after another document had its outcome: the browser is closed and so is
\* the page.
C37_Witness ==
  /\ pc = "exited"
  /\ exit_code = 130
  /\ interrupted = "discover_probe"
  /\ Len(Details) >= 1
  /\ batch.browser = "closed"
  /\ ~page_open

====
